---- MODULE Spec2Model ----
(***************************************************************************)
(* A model of the lnbot Python SDK: the naming codec and the typed         *)
(* response parser (lnbot/types.py), the error classifier                  *)
(* (lnbot/errors.py, lnbot/client.py) and the request dispatcher           *)
(* (lnbot/client.py).                                                      *)
(*                                                                         *)
(* Strings the code inspects character by character (field names, wire     *)
(* keys) are sequences of one-character strings.  Python values are        *)
(* records of one shape, J(t, n, s, o): t the type tag, n the number (or   *)
(* the truth value of a bool), s the text of a str, o the entries of a     *)
(* dict or the items of a list.  A dict is the sequence of its             *)
(* <<key, value>> entries in insertion order, keys distinct.               *)
(***************************************************************************)
EXTENDS Integers, Sequences, FiniteSets, TLC

\* fn, arg, ret: a function of the library applied on its own, its argument
\* and what it gave.
\* self, ctor: the attributes of the LnBot instance, and the arguments and
\* environment it was constructed from.  sent, resp, outcome: the request of
\* the call in hand, the response of the server, and what the call gave its
\* caller.  pc: where the caller of the client is.  reader: the stream
\* reader under way: the lines it has taken, its pending event name, the
\* events it has yielded and the exception that ended it.  mode: whether
\* the client is an LnBot or an AsyncLnBot.  environ: LNBOT_API_KEY in the
\* environment as it is now.  http: the httpx client behind self._http.
\* wire: the requests the call in hand has handed to it.  conn: the
\* response of http.stream(...), from the entry of its with block to its
\* exit.
VARIABLES fn, arg, ret, self, ctor, sent, resp, outcome, pc, reader,
          mode, environ, http, wire, conn

pure_vars == <<fn, arg, ret>>
session_vars == <<mode, environ, http, wire, conn>>
client_vars == <<self, ctor, sent, resp, outcome, pc, reader, session_vars>>
vars == <<fn, arg, ret, self, ctor, sent, resp, outcome, pc, reader,
          session_vars>>

\* the state of what only a session of a caller with its client uses
NoSession ==
    /\ mode = "sync"
    /\ environ = <<>>
    /\ http = <<>>
    /\ wire = <<>>
    /\ conn = "none"

-----------------------------------------------------------------------------
(* Bounds of the model *)

\* longest snake_case field name fed to the round trip
MaxNameLen == 6
\* longest key fed to the two key conversions
MaxKeyLen == 4
\* most entries of a mapping fed to to_camel / from_camel
MaxKeys == 3

-----------------------------------------------------------------------------
(* Python values *)

J(t, n, s, o) == [t |-> t, n |-> n, s |-> s, o |-> o]
None == J("null", 0, "", <<>>)
JInt(i) == J("int", i, "", <<>>)
JStr(x) == J("str", 0, x, <<>>)
JBool(b) == J("bool", IF b THEN 1 ELSE 0, "", <<>>)
JObj(entries) == J("obj", 0, "", entries)
JArr(items) == J("arr", 0, "", items)

\* Python truth value of a value (the operand test of `or` and `if`)
Truthy(v) ==
    CASE v.t = "null" -> FALSE
      [] v.t = "int"  -> v.n # 0
      [] v.t = "bool" -> v.n = 1
      [] v.t = "str"  -> v.s # ""
      [] OTHER        -> v.o # <<>>

-----------------------------------------------------------------------------
(* Python dict, as the sequence of its entries in insertion order *)

DictKeys(d) == {d[i][1] : i \in 1..Len(d)}
DictHas(d, k) == \E i \in 1..Len(d) : d[i][1] = k
DictIdx(d, k) == CHOOSE i \in 1..Len(d) : d[i][1] = k
\* d.get(k): the value, None when the key is absent
DictGet(d, k) == IF DictHas(d, k) THEN d[DictIdx(d, k)][2] ELSE None
\* d[k] = v: a present key keeps its place and takes the new value
DictSet(d, k, v) ==
    IF DictHas(d, k) THEN [d EXCEPT ![DictIdx(d, k)] = <<k, v>>]
    ELSE Append(d, <<k, v>>)
\* d1 == d2 of two dicts: the same entries, in any order
DictEq(d1, d2) == {d1[i] : i \in 1..Len(d1)} = {d2[i] : i \in 1..Len(d2)}

-----------------------------------------------------------------------------
(* str methods used by the codec, on ASCII *)

LowerChars == <<"a","b","c","d","e","f","g","h","i","j","k","l","m",
                "n","o","p","q","r","s","t","u","v","w","x","y","z">>
UpperChars == <<"A","B","C","D","E","F","G","H","I","J","K","L","M",
                "N","O","P","Q","R","S","T","U","V","W","X","Y","Z">>
DigitChars == {"0","1","2","3","4","5","6","7","8","9"}

isupper(c) == \E i \in 1..Len(UpperChars) : UpperChars[i] = c
islower(c) == \E i \in 1..Len(LowerChars) : LowerChars[i] = c
isdigit(c) == c \in DigitChars
lower_char(c) ==
    IF isupper(c)
    THEN LowerChars[CHOOSE i \in 1..Len(UpperChars) : UpperChars[i] = c]
    ELSE c
upper_char(c) ==
    IF islower(c)
    THEN UpperChars[CHOOSE i \in 1..Len(LowerChars) : LowerChars[i] = c]
    ELSE c

\* str.lower()
lower(s) == [i \in 1..Len(s) |-> lower_char(s[i])]

\* str.capitalize(): the first character upper-cased, the rest lower-cased
capitalize_keeps_rest(s) ==
    IF s = <<>> THEN <<>> ELSE <<upper_char(s[1])>> \o Tail(s)
capitalize(s) ==
    IF s = <<>> THEN <<>> ELSE <<upper_char(s[1])>> \o lower(Tail(s))

\* str.split("_"): the segments between underscores, empty ones included
RECURSIVE split(_)
split(s) ==
    IF \A i \in 1..Len(s) : s[i] # "_" THEN <<s>>
    ELSE LET k == CHOOSE i \in 1..Len(s) :
                     s[i] = "_" /\ \A j \in 1..(i - 1) : s[j] # "_"
         IN <<SubSeq(s, 1, k - 1)>> \o split(SubSeq(s, k + 1, Len(s)))

\* "".join(parts)
RECURSIVE join(_)
join(parts) == IF parts = <<>> THEN <<>> ELSE Head(parts) \o join(Tail(parts))

-----------------------------------------------------------------------------
(* JSON key mapping, types.py *)

_to_camel(name) ==
    LET parts == split(name)
    IN parts[1] \o join([i \in 1..(Len(parts) - 1) |-> capitalize(parts[i + 1])])

\* the regular expression (?<=[a-z0-9])([A-Z]) at position i of name
snake_match(name, i) ==
    /\ isupper(name[i])
    /\ i > 1
    /\ (islower(name[i - 1]) \/ isdigit(name[i - 1]))

_to_snake_drops_underscore(name) == lower(name)
_to_snake(name) ==
    lower(join([i \in 1..Len(name) |->
                  IF snake_match(name, i) THEN <<"_", name[i]>> ELSE <<name[i]>>]))

to_camel_truthy(data) ==
    LET acc[i \in 0..Len(data)] ==
            IF i = 0 THEN <<>>
            ELSE IF Truthy(data[i][2])
                 THEN DictSet(acc[i - 1], _to_camel(data[i][1]), data[i][2])
                 ELSE acc[i - 1]
    IN acc[Len(data)]
to_camel(data) ==
    LET acc[i \in 0..Len(data)] ==
            IF i = 0 THEN <<>>
            ELSE IF data[i][2] # None
                 THEN DictSet(acc[i - 1], _to_camel(data[i][1]), data[i][2])
                 ELSE acc[i - 1]
    IN acc[Len(data)]

from_camel_drops_none(data) ==
    LET acc[i \in 0..Len(data)] ==
            IF i = 0 THEN <<>>
            ELSE IF data[i][2] # None
                 THEN DictSet(acc[i - 1], _to_snake(data[i][1]), data[i][2])
                 ELSE acc[i - 1]
    IN acc[Len(data)]
from_camel(data) ==
    LET acc[i \in 0..Len(data)] ==
            IF i = 0 THEN <<>>
            ELSE DictSet(acc[i - 1], _to_snake(data[i][1]), data[i][2])
    IN acc[Len(data)]

-----------------------------------------------------------------------------
(* Field names of the response records, types.py *)

k_wallet_id == <<"w","a","l","l","e","t","_","i","d">>
k_name == <<"n","a","m","e">>
k_balance == <<"b","a","l","a","n","c","e">>
k_on_hold == <<"o","n","_","h","o","l","d">>
k_available == <<"a","v","a","i","l","a","b","l","e">>
k_key == <<"k","e","y">>
k_bolt11 == <<"b","o","l","t","1","1">>
k_amount == <<"a","m","o","u","n","t">>
k_expires_at == <<"e","x","p","i","r","e","s","_","a","t">>
k_number == <<"n","u","m","b","e","r">>
k_status == <<"s","t","a","t","u","s">>
k_reference == <<"r","e","f","e","r","e","n","c","e">>
k_memo == <<"m","e","m","o">>
k_preimage == <<"p","r","e","i","m","a","g","e">>
k_tx_number == <<"t","x","_","n","u","m","b","e","r">>
k_created_at == <<"c","r","e","a","t","e","d","_","a","t">>
k_settled_at == <<"s","e","t","t","l","e","d","_","a","t">>
k_max_fee == <<"m","a","x","_","f","e","e">>
k_service_fee == <<"s","e","r","v","i","c","e","_","f","e","e">>
k_address == <<"a","d","d","r","e","s","s">>
k_actual_fee == <<"a","c","t","u","a","l","_","f","e","e">>
k_failure_reason == <<"f","a","i","l","u","r","e","_","r","e","a","s","o","n">>

\* the declared fields of the dataclasses, in declaration order: required
\* (no default) and optional (default None)
Dataclasses ==
    [ WalletResponse |->
        [required |-> <<k_wallet_id, k_name, k_balance, k_on_hold, k_available>>,
         optional |-> <<>>],
      RotateApiKeyResponse |->
        [required |-> <<k_key, k_name>>,
         optional |-> <<>>],
      AddressInvoiceResponse |->
        [required |-> <<k_bolt11, k_amount>>,
         optional |-> <<k_expires_at>>],
      InvoiceResponse |->
        [required |-> <<k_number, k_status, k_amount, k_bolt11>>,
         optional |-> <<k_reference, k_memo, k_preimage, k_tx_number,
                        k_created_at, k_settled_at, k_expires_at>>],
      PaymentResponse |->
        [required |-> <<k_number, k_status, k_amount, k_max_fee,
                        k_service_fee, k_address>>,
         optional |-> <<k_actual_fee, k_reference, k_preimage, k_tx_number,
                        k_failure_reason, k_created_at, k_settled_at>>] ]

Range(s) == {s[i] : i \in 1..Len(s)}
declared(cls) == Dataclasses[cls].required \o Dataclasses[cls].optional
\* {f.name for f in cls.__dataclass_fields__.values()}
dataclass_fields(cls) == Range(declared(cls))

\* cls(**kwargs) of a dataclass: TypeError when a field without default has no
\* argument, else the instance, every absent field at its default
dataclass_init_defaults_required(cls, kwargs) ==
    [exc |-> "",
     obj |-> [i \in 1..Len(declared(cls)) |->
                <<declared(cls)[i], DictGet(kwargs, declared(cls)[i])>>]]
dataclass_init(cls, kwargs) ==
    IF \E f \in Range(Dataclasses[cls].required) : ~DictHas(kwargs, f)
    THEN [exc |-> "TypeError", obj |-> <<>>]
    ELSE [exc |-> "",
          obj |-> [i \in 1..Len(declared(cls)) |->
                     <<declared(cls)[i],
                       IF DictHas(kwargs, declared(cls)[i])
                       THEN DictGet(kwargs, declared(cls)[i])
                       ELSE None>>]]

parse(cls, data) ==
    LET mapped == from_camel(data)
        fields == dataclass_fields(cls)
        kwargs == SelectSeq(mapped, LAMBDA e : e[1] \in fields)
    IN dataclass_init(cls, kwargs)

-----------------------------------------------------------------------------
(* Inputs of the codec and of the parser *)

SeqsUpTo(S, n) == UNION {[1..k -> S] : k \in 0..n}

\* lower-case words joined by single underscores
WellFormedSnake(s) ==
    /\ s # <<>>
    /\ s[1] # "_"
    /\ s[Len(s)] # "_"
    /\ \A i \in 1..(Len(s) - 1) : ~(s[i] = "_" /\ s[i + 1] = "_")
SnakeNames == {s \in SeqsUpTo({"a", "b", "_"}, MaxNameLen) : WellFormedSnake(s)}

\* any key: lower case, upper case, digits, underscores
Keys == SeqsUpTo({"a", "A", "B", "1", "_"}, MaxKeyLen)

\* the dicts of at most n entries with keys of pool and values of vals
DictsOver(pool, vals, n) ==
    UNION {{d \in [1..k -> pool \X vals] :
              \A i, j \in 1..k : d[i][1] = d[j][1] => i = j} : k \in 0..n}

k_wallet_id_camel == <<"w","a","l","l","e","t","I","d">>
k_on_hold_camel == <<"o","n","H","o","l","d">>
k_inner_key == <<"i","n","n","e","r","K","e","y">>
k_extra == <<"e","x","t","r","a">>

\* keyword arguments the resource methods hand to to_camel (client.py)
CamelKeyPool == {k_amount, k_reference, k_memo, k_wallet_id}
CamelValues ==
    {None, JInt(0), JInt(100), JStr(""), JStr("x"), JBool(FALSE)}
ToCamelInputs == DictsOver(CamelKeyPool, CamelValues, MaxKeys)

\* keys and values of a wire object the server may send
WireKeyPool == {k_on_hold_camel, k_on_hold, k_wallet_id_camel, k_name}
WireValues ==
    {None, JInt(1), JInt(2), JObj(<<<<k_inner_key, JInt(1)>>>>)}
FromCamelInputs == DictsOver(WireKeyPool, WireValues, MaxKeys)

NonNullValues == CamelValues \ {None}

\* wire keys offered to parse(cls, .): the wire names of some declared fields,
\* a key no field matches, and a second spelling of one declared field
ParseWireKeys ==
    [ WalletResponse |->
        <<_to_camel(k_wallet_id), k_name, k_balance, _to_camel(k_on_hold),
          k_available, k_extra, k_on_hold>>,
      RotateApiKeyResponse |->
        <<k_key, k_name, k_extra, <<"N","a","m","e">>>>,
      AddressInvoiceResponse |->
        <<k_bolt11, k_amount, _to_camel(k_expires_at), k_extra, k_expires_at>>,
      InvoiceResponse |->
        <<k_number, k_status, k_amount, k_bolt11, k_memo,
          _to_camel(k_tx_number), k_extra>>,
      PaymentResponse |->
        <<k_number, k_status, k_amount, _to_camel(k_max_fee),
          _to_camel(k_service_fee), k_address, k_extra>> ]

Reverse(s) == [i \in 1..Len(s) |-> s[Len(s) + 1 - i]]

\* the wire object holding the keys of pool at the positions S, those at N
\* null and the others a number telling them apart, in pool order or reversed
WireObject(pool, S, N, rev) ==
    LET idx == SelectSeq([i \in 1..Len(pool) |-> i], LAMBDA i : i \in S)
        d == [j \in 1..Len(idx) |->
                <<pool[idx[j]], IF idx[j] \in N THEN None ELSE JInt(idx[j])>>]
    IN IF rev THEN Reverse(d) ELSE d

-----------------------------------------------------------------------------
(* The codec and the parser applied to an input *)

InitPure ==
    /\ fn = "none"
    /\ arg = <<>>
    /\ ret = <<>>
    /\ self = <<>>
    /\ ctor = <<>>
    /\ sent = <<>>
    /\ resp = <<>>
    /\ outcome = <<>>
    /\ pc = "no client"
    /\ reader = <<>>
    /\ NoSession

Call_to_camel_key ==
    /\ fn = "none"
    /\ UNCHANGED client_vars
    /\ \E name \in Keys :
         /\ fn' = "_to_camel"
         /\ arg' = name
         /\ ret' = _to_camel(name)

Call_to_snake_key ==
    /\ fn = "none"
    /\ UNCHANGED client_vars
    /\ \E name \in Keys :
         /\ fn' = "_to_snake"
         /\ arg' = name
         /\ ret' = _to_snake(name)

Call_to_camel ==
    /\ fn = "none"
    /\ UNCHANGED client_vars
    /\ \E data \in ToCamelInputs :
         /\ fn' = "to_camel"
         /\ arg' = data
         /\ ret' = to_camel(data)

Call_from_camel ==
    /\ fn = "none"
    /\ UNCHANGED client_vars
    /\ \E data \in FromCamelInputs :
         /\ fn' = "from_camel"
         /\ arg' = data
         /\ ret' = from_camel(data)

\* from_camel(to_camel({name: v}))
Call_round_trip ==
    /\ fn = "none"
    /\ UNCHANGED client_vars
    /\ \E name \in SnakeNames, v \in NonNullValues :
         /\ fn' = "round_trip"
         /\ arg' = <<<<name, v>>>>
         /\ ret' = from_camel(to_camel(<<<<name, v>>>>))

Call_parse ==
    /\ fn = "none"
    /\ UNCHANGED client_vars
    /\ \E cls \in DOMAIN Dataclasses :
         \E S \in SUBSET (1..Len(ParseWireKeys[cls])) :
           \E N \in SUBSET S, rev \in BOOLEAN :
             LET data == WireObject(ParseWireKeys[cls], S, N, rev)
             IN /\ fn' = "parse"
                /\ arg' = <<cls, data>>
                /\ ret' = parse(cls, data)

\* the JSON body InvoicesResource.create hands to _post
invoices_create_body(amount, reference, memo) ==
    to_camel(<<<<k_amount, amount>>, <<k_reference, reference>>, <<k_memo, memo>>>>)

Call_invoices_create ==
    /\ fn = "none"
    /\ UNCHANGED client_vars
    /\ \E amount \in {JInt(0), JInt(100)},
          reference \in {None, JStr(""), JStr("x")},
          memo \in {None, JStr(""), JStr("x")} :
         /\ fn' = "invoices.create"
         /\ arg' = <<amount, reference, memo>>
         /\ ret' = invoices_create_body(amount, reference, memo)

\* _qs(params): the entries whose value is not None
_qs_keeps_none(params) == params
_qs(params) == SelectSeq(params, LAMBDA e : e[2] # None)

\* the optional values a caller gives for limit, after and timeout
QueryValues == {None, JInt(0), JInt(10)}

\* the params InvoicesResource.list (and the payments and transactions
\* lists alike) hands to _get
list_params(limit, after) == _qs(<<<<"limit", limit>>, <<"after", after>>>>)

\* the params the watch readers hand to the stream request
watch_params(timeout) == _qs(<<<<"timeout", timeout>>>>)

Call_list_params ==
    /\ fn = "none"
    /\ UNCHANGED client_vars
    /\ \E limit \in QueryValues, after \in QueryValues :
         /\ fn' = "list"
         /\ arg' = <<<<"limit", limit>>, <<"after", after>>>>
         /\ ret' = list_params(limit, after)

Call_watch_params ==
    /\ fn = "none"
    /\ UNCHANGED client_vars
    /\ \E timeout \in QueryValues :
         /\ fn' = "watch"
         /\ arg' = <<<<"timeout", timeout>>>>
         /\ ret' = watch_params(timeout)

NextCodec ==
    \/ Call_to_camel_key
    \/ Call_to_snake_key
    \/ Call_to_camel
    \/ Call_from_camel
    \/ Call_round_trip
    \/ Call_parse
    \/ Call_invoices_create
    \/ Call_list_params
    \/ Call_watch_params

SpecCodec == InitPure /\ [][NextCodec]_vars

-----------------------------------------------------------------------------
(* Properties of the naming codec *)

Words(name) == split(name)
\* every word but the first and the last has at least two letters
InnerWordsLong(name) ==
    \A i \in 2..(Len(Words(name)) - 1) : Len(Words(name)[i]) >= 2

\* C1, as claimed: for every field name of lower-case words joined by single
\* underscores and every non-null v, from_camel(to_camel({name: v})) is
\* {name: v}.
C1_RoundTripEveryName ==
    fn = "round_trip" => DictEq(ret, arg)

\* C1, amended: the round trip gives back {name: v} exactly for the names in
\* which every word other than the first and the last has two letters or more.
C1_RoundTrip ==
    fn = "round_trip" => (DictEq(ret, arg) <=> InnerWordsLong(arg[1][1]))

C1_Witness ==
    /\ fn = "round_trip"
    /\ Len(Words(arg[1][1])) = 3
    /\ Len(Words(arg[1][1])[1]) = 1
    /\ Len(Words(arg[1][1])[3]) = 1
    /\ DictEq(ret, arg)

NonNullEntries(d) == {i \in 1..Len(d) : d[i][2] # None}

\* C2: to_camel keeps, under its camelCase key and unchanged, every entry
\* whose value is not None (0, "" and False included), has no key for an
\* entry whose value is None, and nothing else; the body of
\* invoices.create(amount=100, memo=None) is {"amount": 100}.
C2_ToCamelDropsExactlyNone ==
    /\ fn = "to_camel" =>
         /\ \A i \in 1..Len(arg) :
              IF arg[i][2] # None
              THEN /\ DictHas(ret, _to_camel(arg[i][1]))
                   /\ DictGet(ret, _to_camel(arg[i][1])) = arg[i][2]
              ELSE ~DictHas(ret, _to_camel(arg[i][1]))
         /\ Len(ret) = Cardinality(NonNullEntries(arg))
    /\ fn = "invoices.create" =>
         /\ \A e \in Range(ret) : e[2] # None
         /\ (arg = <<JInt(100), None, None>> => ret = <<<<k_amount, JInt(100)>>>>)

C2_Witness ==
    /\ fn = "to_camel"
    /\ \E i, j, k \in 1..Len(arg) :
         /\ arg[i] = <<k_memo, None>>
         /\ arg[j] = <<k_amount, JInt(0)>>
         /\ arg[k] = <<k_wallet_id, JStr("")>>
    /\ DictEq(ret, <<<<k_amount, JInt(0)>>, <<k_wallet_id_camel, JStr("")>>>>)

SnakeKeys(d) == {_to_snake(d[i][1]) : i \in 1..Len(d)}
\* the last entry of d whose key translates to k
LastFor(d, k) ==
    CHOOSE i \in 1..Len(d) :
        /\ _to_snake(d[i][1]) = k
        /\ \A j \in (i + 1)..Len(d) : _to_snake(d[j][1]) # k

\* C3, as claimed: the output of from_camel has as many keys as the input
\* (also when onHold and on_hold are both present) and every input entry is
\* found under its snake_case key with its value unchanged.
C3_FromCamelKeepsEveryKey ==
    fn = "from_camel" =>
        /\ Len(ret) = Len(arg)
        /\ \A i \in 1..Len(arg) : DictGet(ret, _to_snake(arg[i][1])) = arg[i][2]

\* C3, amended: the output has one entry for each distinct snake_case form of
\* the input keys, carrying unchanged (null and nested objects included) the
\* value of the last input entry with that form; it has as many keys as the
\* input exactly when no two input keys share a snake_case form.
C3_FromCamelOneEntryPerSnakeKey ==
    fn = "from_camel" =>
        /\ DictKeys(ret) = SnakeKeys(arg)
        /\ Len(ret) = Cardinality(SnakeKeys(arg))
        /\ \A k \in SnakeKeys(arg) : DictGet(ret, k) = arg[LastFor(arg, k)][2]
        /\ (Len(ret) = Len(arg)) <=>
             (\A i, j \in 1..Len(arg) :
                _to_snake(arg[i][1]) = _to_snake(arg[j][1]) => i = j)

C3_Witness ==
    /\ fn = "from_camel"
    /\ Len(arg) = 3
    /\ arg[1] = <<k_on_hold_camel, JInt(1)>>
    /\ arg[2] = <<k_on_hold, None>>
    /\ arg[3] = <<k_wallet_id_camel, JObj(<<<<k_inner_key, JInt(1)>>>>)>>
    /\ ret = <<<<k_on_hold, None>>,
               <<k_wallet_id, JObj(<<<<k_inner_key, JInt(1)>>>>)>>>>

Id(c) == c
InFirstSegment(name, i) == \A j \in 1..i : name[j] # "_"
StartsSegment(name, i) == i > 1 /\ name[i - 1] = "_"
\* name without its underscores, each character changed by what its place is:
\* in the first segment, first of a later segment, or further in a later one
CamelByPlace(name, first(_), head(_), rest(_)) ==
    join([i \in 1..Len(name) |->
            IF name[i] = "_" THEN <<>>
            ELSE IF InFirstSegment(name, i) THEN <<first(name[i])>>
            ELSE IF StartsSegment(name, i) THEN <<head(name[i])>>
            ELSE <<rest(name[i])>>])
NoUnderscore(name) == \A i \in 1..Len(name) : name[i] # "_"

\* C4, as claimed: _to_camel lower-cases the first segment, capitalizes the
\* first letter of each later segment and leaves the rest of it as is; a key
\* with no underscore is returned unchanged.
C4_ToCamelLowersFirstKeepsRest ==
    fn = "_to_camel" =>
        /\ ret = CamelByPlace(arg, lower_char, upper_char, Id)
        /\ (NoUnderscore(arg) => ret = arg)

\* C4, amended: _to_camel keeps the first segment as it is, upper-cases the
\* first letter of each later segment and lower-cases the rest of it; a key
\* with no underscore is returned unchanged.
C4_ToCamelKeepsFirstLowersRest ==
    fn = "_to_camel" =>
        /\ ret = CamelByPlace(arg, Id, upper_char, lower_char)
        /\ (NoUnderscore(arg) => ret = arg)

C4_Witness ==
    /\ fn = "_to_camel"
    /\ arg = <<"A", "_", "a", "B">>
    /\ ret = <<"A", "A", "b">>

-----------------------------------------------------------------------------
(* Properties of the typed response parser *)

\* a required field of cls that no wire key of data translates to
RequiredAbsent(cls, data) ==
    \E f \in Range(Dataclasses[cls].required) : f \notin SnakeKeys(data)

\* C5: parse(cls, wireObject) raises exactly when a required field is absent
\* from the translated wire keys; otherwise the record has the declared
\* fields and no other, a field the wire object names carrying its value
\* and an absent one its default, None.
C5_ParseIgnoresUnknownFillsDefaults ==
    fn = "parse" =>
        LET cls == arg[1]
            data == arg[2]
        IN /\ (ret.exc # "") <=> RequiredAbsent(cls, data)
           /\ ret.exc # "" => ret.obj = <<>>
           /\ ret.exc = "" =>
                /\ [i \in 1..Len(ret.obj) |-> ret.obj[i][1]] = declared(cls)
                /\ \A i \in 1..Len(ret.obj) :
                     ret.obj[i][2] =
                        IF ret.obj[i][1] \in SnakeKeys(data)
                        THEN data[LastFor(data, ret.obj[i][1])][2]
                        ELSE None

C5_Witness ==
    /\ fn = "parse"
    /\ arg[1] = "AddressInvoiceResponse"
    /\ DictKeys(arg[2]) = {k_bolt11, k_amount, k_extra}
    /\ ret.exc = ""
    /\ DictGet(ret.obj, k_expires_at) = None
    /\ ~DictHas(ret.obj, k_extra)

-----------------------------------------------------------------------------
(* Error classification, errors.py and client.py *)

k_message == <<"m","e","s","s","a","g","e">>
k_error == <<"e","r","r","o","r">>
k_detail == <<"d","e","t","a","i","l">>
k_code == <<"c","o","d","e">>
k_txNumber == <<"t","x","N","u","m","b","e","r">>
k_maxFee == <<"m","a","x","F","e","e">>
k_serviceFee == <<"s","e","r","v","i","c","e","F","e","e">>
k_event == <<"e","v","e","n","t">>
k_createdAt == <<"c","r","e","a","t","e","d","A","t">>
k_data == <<"d","a","t","a">>

\* Response bodies, as text.  json_loads gives for each the outcome of
\* json.loads: the exception it raises, or the decoded value.
RawBodies ==
    { "", "not json", "{\"message\":", "null", "1", "0", "true", "\"text\"",
      "[]", "[1]", "[{\"message\":\"in array\"}]", "{}",
      "{\"detail\":\"d\"}",
      "{\"message\":\"invalid amount\"}",
      "{\"error\":\"bad\"}",
      "{\"message\":\"m\",\"error\":\"e\"}",
      "{\"message\":\"\",\"error\":\"e\"}",
      "{\"message\":\"\"}",
      "{\"message\":null}",
      "{\"message\":null,\"error\":\"e\"}",
      "{\"message\":0,\"error\":\"\"}",
      "{\"message\":false,\"error\":7}",
      "{\"message\":{\"code\":1}}" }

Decoded(v) == [exc |-> "", val |-> v]
Raised(e) == [exc |-> e, val |-> None]

json_loads(body) ==
    CASE body = "" -> Raised("JSONDecodeError")
      [] body = "not json" -> Raised("JSONDecodeError")
      [] body = "{\"message\":" -> Raised("JSONDecodeError")
      [] body = "null" -> Decoded(None)
      [] body = "1" -> Decoded(JInt(1))
      [] body = "0" -> Decoded(JInt(0))
      [] body = "true" -> Decoded(JBool(TRUE))
      [] body = "\"text\"" -> Decoded(JStr("text"))
      [] body = "[]" -> Decoded(JArr(<<>>))
      [] body = "[1]" -> Decoded(JArr(<<JInt(1)>>))
      [] body = "[{\"message\":\"in array\"}]" ->
            Decoded(JArr(<<JObj(<<<<k_message, JStr("in array")>>>>)>>))
      [] body = "{}" -> Decoded(JObj(<<>>))
      [] body = "{\"detail\":\"d\"}" -> Decoded(JObj(<<<<k_detail, JStr("d")>>>>))
      [] body = "{\"message\":\"invalid amount\"}" ->
            Decoded(JObj(<<<<k_message, JStr("invalid amount")>>>>))
      [] body = "{\"error\":\"bad\"}" -> Decoded(JObj(<<<<k_error, JStr("bad")>>>>))
      [] body = "{\"message\":\"m\",\"error\":\"e\"}" ->
            Decoded(JObj(<<<<k_message, JStr("m")>>, <<k_error, JStr("e")>>>>))
      [] body = "{\"message\":\"\",\"error\":\"e\"}" ->
            Decoded(JObj(<<<<k_message, JStr("")>>, <<k_error, JStr("e")>>>>))
      [] body = "{\"message\":\"\"}" -> Decoded(JObj(<<<<k_message, JStr("")>>>>))
      [] body = "{\"message\":null}" -> Decoded(JObj(<<<<k_message, None>>>>))
      [] body = "{\"message\":null,\"error\":\"e\"}" ->
            Decoded(JObj(<<<<k_message, None>>, <<k_error, JStr("e")>>>>))
      [] body = "{\"message\":0,\"error\":\"\"}" ->
            Decoded(JObj(<<<<k_message, JInt(0)>>, <<k_error, JStr("")>>>>))
      [] body = "{\"message\":false,\"error\":7}" ->
            Decoded(JObj(<<<<k_message, JBool(FALSE)>>, <<k_error, JInt(7)>>>>))
      [] body = "{\"message\":{\"code\":1}}" ->
            Decoded(JObj(<<<<k_message, JObj(<<<<k_code, JInt(1)>>>>)>>>>))
      [] body = "{\"number\":1,\"status\":\"settled\",\"amount\":100,\"bolt11\":\"lnbc1\"}" ->
            Decoded(JObj(<<<<k_number, JInt(1)>>, <<k_status, JStr("settled")>>,
                           <<k_amount, JInt(100)>>, <<k_bolt11, JStr("lnbc1")>>>>))
      [] body = "{\"number\":2,\"status\":\"expired\",\"amount\":50,\"bolt11\":\"lnbc2\",\"txNumber\":7}" ->
            Decoded(JObj(<<<<k_number, JInt(2)>>, <<k_status, JStr("expired")>>,
                           <<k_amount, JInt(50)>>, <<k_bolt11, JStr("lnbc2")>>,
                           <<k_txNumber, JInt(7)>>>>))
      [] body = "{\"number\":1}" -> Decoded(JObj(<<<<k_number, JInt(1)>>>>))
      [] body = "{\"number\":1,\"status\":\"settled\",\"amount\":50,\"maxFee\":10,\"serviceFee\":0,\"address\":\"a@ln.bot\"}" ->
            Decoded(JObj(<<<<k_number, JInt(1)>>, <<k_status, JStr("settled")>>,
                           <<k_amount, JInt(50)>>, <<k_maxFee, JInt(10)>>,
                           <<k_serviceFee, JInt(0)>>,
                           <<k_address, JStr("a@ln.bot")>>>>))
      [] body = "{\"event\":\"invoice.settled\",\"createdAt\":\"t1\",\"data\":{\"number\":1}}" ->
            Decoded(JObj(<<<<k_event, JStr("invoice.settled")>>,
                           <<k_createdAt, JStr("t1")>>,
                           <<k_data, JObj(<<<<k_number, JInt(1)>>>>)>>>>))
      [] body = "{\"event\":\"payment.settled\"}" ->
            Decoded(JObj(<<<<k_event, JStr("payment.settled")>>>>))

\* the try block of _extract_message: data.get exists on a dict only, and
\* `a or b or c` is the first operand that is true, else the last
extract_try_error_first(body, fallback) ==
    LET data == json_loads(body)
    IN IF data.exc # "" THEN Raised(data.exc)
       ELSE IF data.val.t # "obj" THEN Raised("AttributeError")
       ELSE LET m == DictGet(data.val.o, k_message)
                e == DictGet(data.val.o, k_error)
            IN Decoded(IF Truthy(e) THEN e
                       ELSE IF Truthy(m) THEN m ELSE JStr(fallback))
extract_try(body, fallback) ==
    LET first_truthy(m, e) ==
            Decoded(IF Truthy(m) THEN m
                    ELSE IF Truthy(e) THEN e ELSE JStr(fallback))
        extracted(data) ==
            IF data.exc # "" THEN Raised(data.exc)
            ELSE IF data.val.t # "obj" THEN Raised("AttributeError")
            ELSE first_truthy(DictGet(data.val.o, k_message),
                              DictGet(data.val.o, k_error))
    IN extracted(json_loads(body))

\* the exceptions the except clause of _extract_message names
ExtractCaught_decode_only == {"JSONDecodeError", "TypeError"}
ExtractCaught == {"JSONDecodeError", "TypeError", "AttributeError"}

_extract_message(body, fallback) ==
    LET r == extract_try(body, fallback)
    IN IF r.exc \in ExtractCaught THEN Decoded(JStr(fallback)) ELSE r

\* the error classes: the status and the fallback message each constructor
\* passes on, and the class each derives from
ErrorClasses ==
    [ BadRequestError   |-> [status |-> 400, fallback |-> "Bad Request",
                             base |-> "LnBotError"],
      UnauthorizedError |-> [status |-> 401, fallback |-> "Unauthorized",
                             base |-> "LnBotError"],
      ForbiddenError    |-> [status |-> 403, fallback |-> "Forbidden",
                             base |-> "LnBotError"],
      NotFoundError     |-> [status |-> 404, fallback |-> "Not Found",
                             base |-> "LnBotError"],
      ConflictError     |-> [status |-> 409, fallback |-> "Conflict",
                             base |-> "LnBotError"] ]

\* isinstance(error of class cls, LnBotError)
IsLnBotError(cls) ==
    \/ cls = "LnBotError"
    \/ cls \in DOMAIN ErrorClasses /\ ErrorClasses[cls].base = "LnBotError"

NoError == [raised |-> "", status |-> 0, body |-> "", message |-> None]

\* LnBotError(message, status, body)
LnBotError(cls, message, status, body) ==
    [raised |-> cls, status |-> status, body |-> body, message |-> message]

\* an exception that escapes while an error is being built is what is raised
Escaped(exc) == [raised |-> exc, status |-> 0, body |-> "", message |-> None]

\* BadRequestError(body), ..., ConflictError(body)
TypedError(cls, body) ==
    LET msg == _extract_message(body, ErrorClasses[cls].fallback)
    IN IF msg.exc # "" THEN Escaped(msg.exc)
       ELSE LnBotError(cls, msg.val, ErrorClasses[cls].status, body)

\* httpx.Response.is_success
is_success(status_code) == 200 <= status_code /\ status_code <= 299

\* the match statement of _raise_for_status: the class raised for a status,
\* LnBotError itself in the default case
match_status_no_conflict(status_code) ==
    CASE status_code = 400 -> "BadRequestError"
      [] status_code = 401 -> "UnauthorizedError"
      [] status_code = 403 -> "ForbiddenError"
      [] status_code = 404 -> "NotFoundError"
      [] OTHER -> "LnBotError"
match_status(status_code) ==
    CASE status_code = 400 -> "BadRequestError"
      [] status_code = 401 -> "UnauthorizedError"
      [] status_code = 403 -> "ForbiddenError"
      [] status_code = 404 -> "NotFoundError"
      [] status_code = 409 -> "ConflictError"
      [] OTHER -> "LnBotError"

\* what _raise_for_status(response) raises, NoError when it returns
_raise_for_status(response) ==
    IF is_success(response.status_code) THEN NoError
    ELSE LET body == response.text
             cls == match_status(response.status_code)
         IN IF cls # "LnBotError" THEN TypedError(cls, body)
            ELSE LET msg == _extract_message(body,
                               IF response.reason_phrase # ""
                               THEN response.reason_phrase ELSE "Error")
                 IN IF msg.exc # "" THEN Escaped(msg.exc)
                    ELSE LnBotError("LnBotError", msg.val,
                                    response.status_code, body)

\* the status codes a response can carry
StatusCodes == 100..599
\* reason phrases: none (HTTP/2, or a bare status line), or the server's
ReasonPhrases == {"", "Reason Phrase"}

Call_raise_for_status ==
    /\ fn = "none"
    /\ UNCHANGED client_vars
    /\ \E status_code \in StatusCodes, text \in RawBodies,
          reason_phrase \in ReasonPhrases :
         LET response == [status_code |-> status_code, text |-> text,
                          reason_phrase |-> reason_phrase]
         IN /\ fn' = "_raise_for_status"
            /\ arg' = response
            /\ ret' = _raise_for_status(response)

Call_extract_message ==
    /\ fn = "none"
    /\ UNCHANGED client_vars
    /\ \E body \in RawBodies, fallback \in {"Bad Request", "Error"} :
         /\ fn' = "_extract_message"
         /\ arg' = [body |-> body, fallback |-> fallback]
         /\ ret' = _extract_message(body, fallback)

NextErrors ==
    \/ Call_raise_for_status
    \/ Call_extract_message

SpecErrors == InitPure /\ [][NextErrors]_vars

-----------------------------------------------------------------------------
(* Properties of the error classifier *)

C6_Class(status_code) ==
    CASE status_code = 400 -> "BadRequestError"
      [] status_code = 401 -> "UnauthorizedError"
      [] status_code = 403 -> "ForbiddenError"
      [] status_code = 404 -> "NotFoundError"
      [] status_code = 409 -> "ConflictError"
      [] OTHER -> "LnBotError"

\* C6: a response with a status in [200, 300) raises nothing; one with
\* status 400, 401, 403, 404 or 409 raises BadRequestError,
\* UnauthorizedError, ForbiddenError, NotFoundError or ConflictError, and any
\* other status raises the plain LnBotError; every error raised is an
\* instance of LnBotError and carries the status of the response and its raw
\* body unchanged.
C6_StatusDecidesErrorClass ==
    fn = "_raise_for_status" =>
        IF 200 <= arg.status_code /\ arg.status_code < 300
        THEN ret = NoError
        ELSE /\ ret.raised = C6_Class(arg.status_code)
             /\ IsLnBotError(ret.raised)
             /\ ret.status = arg.status_code
             /\ ret.body = arg.text

C6_Witness ==
    /\ fn = "_raise_for_status"
    /\ arg.status_code = 409
    /\ arg.text = "not json"
    /\ ret.raised = "ConflictError"
    /\ ret.status = 409
    /\ ret.body = "not json"

C7_IsObject(body) == json_loads(body).exc = "" /\ json_loads(body).val.t = "obj"
C7_Field(body, k) == DictGet(json_loads(body).val.o, k)
C7_HasField(body, k) == C7_IsObject(body) /\ DictHas(json_loads(body).val.o, k)
C7_KindFallback(status_code) ==
    CASE status_code = 400 -> "Bad Request"
      [] status_code = 401 -> "Unauthorized"
      [] status_code = 403 -> "Forbidden"
      [] status_code = 404 -> "Not Found"
      [] status_code = 409 -> "Conflict"

\* C7, as claimed: the message of a raised error is the body's message field
\* whenever the body is a JSON object that has one (whatever its value, the
\* empty string included), else its error field when it has one, else the
\* fallback of the kind, which for the generic error is the reason phrase.
C7_MessageIsFieldWhenPresent ==
    fn = "_raise_for_status" /\ ret.raised # "" =>
        ret.message =
            IF C7_HasField(arg.text, k_message) THEN C7_Field(arg.text, k_message)
            ELSE IF C7_HasField(arg.text, k_error) THEN C7_Field(arg.text, k_error)
            ELSE IF ret.raised = "LnBotError" THEN JStr(arg.reason_phrase)
            ELSE JStr(C7_KindFallback(arg.status_code))

\* C7, amended: the message of a raised error is the body's message field
\* when the body is a JSON object and that field is true in Python's sense
\* (present and not null, "", 0 or false), else its error field when that one
\* is true, else the fallback of the kind: "Bad Request", "Unauthorized",
\* "Forbidden", "Not Found", "Conflict", and for the generic error the reason
\* phrase, or "Error" when the reason phrase is empty.
C7_MessageIsFirstTrueField ==
    fn = "_raise_for_status" /\ ret.raised # "" =>
        ret.message =
            IF C7_IsObject(arg.text) /\ Truthy(C7_Field(arg.text, k_message))
            THEN C7_Field(arg.text, k_message)
            ELSE IF C7_IsObject(arg.text) /\ Truthy(C7_Field(arg.text, k_error))
            THEN C7_Field(arg.text, k_error)
            ELSE IF ret.raised # "LnBotError"
            THEN JStr(C7_KindFallback(arg.status_code))
            ELSE IF arg.reason_phrase # "" THEN JStr(arg.reason_phrase)
            ELSE JStr("Error")

C7_Witness ==
    /\ fn = "_raise_for_status"
    /\ arg.status_code = 400
    /\ arg.text = "{\"message\":\"\",\"error\":\"e\"}"
    /\ ret.raised = "BadRequestError"
    /\ ret.message = JStr("e")

-----------------------------------------------------------------------------
(* The client and its request dispatcher, client.py *)

_VERSION == "0.0.0"
\* f"lnbot-python/{_VERSION}", as the pieces of the formatted string
_USER_AGENT == <<"lnbot-python/", _VERSION>>

\* _headers(api_key); a header value is the sequence of the pieces of its text
_headers(api_key) ==
    LET h == << <<"Accept", <<"application/json">>>>,
                <<"User-Agent", _USER_AGENT>> >>
    IN IF Truthy(api_key)
       THEN DictSet(h, "Authorization", <<"Bearer ", api_key.s>>)
       ELSE h

\* the headers InvoicesResource.watch builds
invoices_watch_headers(client) ==
    LET headers == << <<"Accept", <<"text/event-stream">>>>,
                      <<"User-Agent", _USER_AGENT>> >>
    IN IF Truthy(client._api_key)
       THEN DictSet(headers, "Authorization", <<"Bearer ", client._api_key.s>>)
       ELSE headers

\* the headers PaymentsResource.watch builds
payments_watch_headers(client) ==
    LET headers == << <<"Accept", <<"text/event-stream">>>>,
                      <<"User-Agent", _USER_AGENT>> >>
    IN IF Truthy(client._api_key)
       THEN DictSet(headers, "Authorization", <<"Bearer ", client._api_key.s>>)
       ELSE headers

\* the headers EventsResource.stream builds
events_stream_headers(client) ==
    LET headers == << <<"Accept", <<"text/event-stream">>>>,
                      <<"User-Agent", _USER_AGENT>> >>
    IN IF Truthy(client._api_key)
       THEN DictSet(headers, "Authorization", <<"Bearer ", client._api_key.s>>)
       ELSE headers

\* LnBot.__init__: api_key or os.environ.get("LNBOT_API_KEY")
LnBot_init_environ_first(api_key, environ_key) ==
    [_api_key |-> IF Truthy(environ_key) THEN environ_key ELSE api_key]
LnBot_init(api_key, environ_key) ==
    [_api_key |-> IF Truthy(api_key) THEN api_key ELSE environ_key]

\* sub in s, of two str
contains(s, sub) ==
    \E i \in 0..(Len(s) - Len(sub)) : SubSeq(s, i + 1, i + Len(sub)) = sub

ct_application_json ==
    <<"a","p","p","l","i","c","a","t","i","o","n","/","j","s","o","n">>
ct_application_json_charset ==
    <<"a","p","p","l","i","c","a","t","i","o","n","/","j","s","o","n",";",
      " ","c","h","a","r","s","e","t","=","u","t","f","-","8">>
ct_text_plain ==
    <<"t","e","x","t","/","p","l","a","i","n">>
ct_text_html ==
    <<"t","e","x","t","/","h","t","m","l">>
\* the value of resp.headers.get("content-type", ""): "" when there is none
ContentTypes ==
    {<<>>, ct_application_json, ct_application_json_charset, ct_text_plain,
     ct_text_html}

\* what a call gives its caller: a value, an exception, or an open stream
Returned(v) == [kind |-> "return", value |-> v, error |-> NoError]
Raises(e) == [kind |-> "raise", value |-> None, error |-> e]
Streaming == [kind |-> "stream", value |-> None, error |-> NoError]

\* resp.json(): json.loads of the body, its exception passed on
resp_json(response) ==
    LET d == json_loads(response.text)
    IN IF d.exc # "" THEN Raises(Escaped(d.exc)) ELSE Returned(d.val)

\* resp.json() if "application/json" in ct else resp.text
decode_by_content_type(response) ==
    IF contains(response.content_type, ct_application_json)
    THEN resp_json(response)
    ELSE Returned(JStr(response.text))

_get(response) ==
    IF _raise_for_status(response).raised # ""
    THEN Raises(_raise_for_status(response))
    ELSE resp_json(response)

_post(response) ==
    IF _raise_for_status(response).raised # ""
    THEN Raises(_raise_for_status(response))
    ELSE IF response.status_code = 204 THEN Returned(None)
    ELSE decode_by_content_type(response)

_patch(response) ==
    IF _raise_for_status(response).raised # ""
    THEN Raises(_raise_for_status(response))
    ELSE decode_by_content_type(response)

_delete(response) ==
    IF _raise_for_status(response).raised # ""
    THEN Raises(_raise_for_status(response))
    ELSE Returned(None)

\* the response http.stream(...) hands to the with block: its content is
\* read already when the transport holds the whole body (MockTransport),
\* and not yet read when it comes from the network
Streamed(response, content_read) ==
    [status_code |-> response.status_code,
     content_type |-> response.content_type,
     text |-> response.text,
     reason_phrase |-> response.reason_phrase,
     content_read |-> content_read]

\* entering the `with ... stream(...) as resp` block of a stream reader, up
\* to the status check; _raise_for_status reads response.text, which
\* raises ResponseNotRead on content not yet read
stream_open(response) ==
    IF is_success(response.status_code) THEN Streaming
    ELSE IF ~response.content_read THEN Raises(Escaped("ResponseNotRead"))
    ELSE Raises(_raise_for_status(response))

\* the responses of the server
ResponseStatuses == {200, 201, 204, 301, 400, 401, 403, 404, 409, 500}
ResponseBodies ==
    {"", "not json", "null", "[1]", "{}", "{\"message\":\"invalid amount\"}"}
Responses ==
    [status_code : ResponseStatuses, content_type : ContentTypes,
     text : ResponseBodies, reason_phrase : ReasonPhrases]

\* the api_key argument of the constructor, and LNBOT_API_KEY in the
\* environment (None when unset)
ApiKeyArgs == {None, JStr(""), JStr("key_arg")}
EnvironKeys == {None, JStr(""), JStr("key_env")}

Request(method, entry, headers) ==
    [method |-> method, entry |-> entry, headers |-> headers]

\* the state after LnBot(api_key)
Init ==
    /\ fn = "none"
    /\ arg = <<>>
    /\ ret = <<>>
    /\ \E api_key \in ApiKeyArgs, environ_key \in EnvironKeys :
         /\ ctor = [api_key |-> api_key, environ_key |-> environ_key]
         /\ self = LnBot_init(api_key, environ_key)
    /\ sent = <<>>
    /\ resp = <<>>
    /\ outcome = <<>>
    /\ pc = "ready"
    /\ reader = <<>>
    /\ NoSession

Get ==
    /\ pc = "ready"
    /\ \E response \in Responses :
         /\ sent' = Request("GET", "_get", _headers(self._api_key))
         /\ resp' = response
         /\ outcome' = _get(response)
    /\ pc' = "returned"
    /\ UNCHANGED <<self, ctor, fn, arg, ret, reader, session_vars>>

Post ==
    /\ pc = "ready"
    /\ \E response \in Responses :
         /\ sent' = Request("POST", "_post", _headers(self._api_key))
         /\ resp' = response
         /\ outcome' = _post(response)
    /\ pc' = "returned"
    /\ UNCHANGED <<self, ctor, fn, arg, ret, reader, session_vars>>

Patch ==
    /\ pc = "ready"
    /\ \E response \in Responses :
         /\ sent' = Request("PATCH", "_patch", _headers(self._api_key))
         /\ resp' = response
         /\ outcome' = _patch(response)
    /\ pc' = "returned"
    /\ UNCHANGED <<self, ctor, fn, arg, ret, reader, session_vars>>

Delete ==
    /\ pc = "ready"
    /\ \E response \in Responses :
         /\ sent' = Request("DELETE", "_delete", _headers(self._api_key))
         /\ resp' = response
         /\ outcome' = _delete(response)
    /\ pc' = "returned"
    /\ UNCHANGED <<self, ctor, fn, arg, ret, reader, session_vars>>

InvoicesWatch ==
    /\ pc = "ready"
    /\ \E response \in Responses, content_read \in BOOLEAN :
         /\ sent' = Request("GET", "invoices.watch", invoices_watch_headers(self))
         /\ resp' = Streamed(response, content_read)
         /\ outcome' = stream_open(Streamed(response, content_read))
    /\ pc' = "returned"
    /\ UNCHANGED <<self, ctor, fn, arg, ret, reader, session_vars>>

PaymentsWatch ==
    /\ pc = "ready"
    /\ \E response \in Responses, content_read \in BOOLEAN :
         /\ sent' = Request("GET", "payments.watch", payments_watch_headers(self))
         /\ resp' = Streamed(response, content_read)
         /\ outcome' = stream_open(Streamed(response, content_read))
    /\ pc' = "returned"
    /\ UNCHANGED <<self, ctor, fn, arg, ret, reader, session_vars>>

EventsStream ==
    /\ pc = "ready"
    /\ \E response \in Responses, content_read \in BOOLEAN :
         /\ sent' = Request("GET", "events.stream", events_stream_headers(self))
         /\ resp' = Streamed(response, content_read)
         /\ outcome' = stream_open(Streamed(response, content_read))
    /\ pc' = "returned"
    /\ UNCHANGED <<self, ctor, fn, arg, ret, reader, session_vars>>

\* the caller goes on to its next call on the same client
Continue ==
    /\ pc = "returned"
    /\ pc' = "ready"
    /\ sent' = <<>>
    /\ resp' = <<>>
    /\ outcome' = <<>>
    /\ UNCHANGED <<self, ctor, fn, arg, ret, reader, session_vars>>

Next ==
    \/ Get
    \/ Post
    \/ Patch
    \/ Delete
    \/ InvoicesWatch
    \/ PaymentsWatch
    \/ EventsStream
    \/ Continue

Spec == Init /\ [][Next]_vars

-----------------------------------------------------------------------------
(* Properties of the dispatcher *)

\* the key the client was configured with: the argument, else the environment
C9_ConfiguredKey ==
    IF Truthy(ctor.api_key) THEN ctor.api_key ELSE ctor.environ_key

\* C9: every request sent (get, post, patch, delete and the three stream
\* requests) carries User-Agent, and carries Authorization: Bearer <key>
\* exactly when a key is configured, the key being the non-empty api_key
\* argument, else a non-empty LNBOT_API_KEY of the environment at
\* construction; with no key there is no Authorization header.
C9_BearerHeaderIffKeyConfigured ==
    pc = "returned" =>
        /\ DictGet(sent.headers, "User-Agent") = _USER_AGENT
        /\ IF Truthy(C9_ConfiguredKey)
           THEN /\ DictHas(sent.headers, "Authorization")
                /\ DictGet(sent.headers, "Authorization")
                     = <<"Bearer ", C9_ConfiguredKey.s>>
           ELSE ~DictHas(sent.headers, "Authorization")

C9_Witness ==
    /\ pc = "returned"
    /\ sent.entry = "events.stream"
    /\ ctor = [api_key |-> JStr(""), environ_key |-> JStr("key_env")]
    /\ DictGet(sent.headers, "Authorization") = <<"Bearer ", "key_env">>

\* C10, as claimed: get, post and patch decode a success response alike: with
\* a JSON content type the caller gets the parsed JSON value, with any other
\* content type the raw text, and no decode error.  (The 204 response, which
\* has a rule of its own, is left aside.)
C10_DecodingUniform ==
    /\ pc = "returned"
    /\ sent.entry \in {"_get", "_post", "_patch"}
    /\ is_success(resp.status_code)
    /\ resp.status_code # 204
    => IF contains(resp.content_type, ct_application_json)
       THEN json_loads(resp.text).exc = ""
                => outcome = Returned(json_loads(resp.text).val)
       ELSE outcome = Returned(JStr(resp.text))

\* C11: for both post and patch a response with status 204 gives the caller
\* no value (None), whatever its content type, and its empty body is not
\* decoded.
C11_NoContentYieldsNone ==
    /\ pc = "returned"
    /\ sent.entry \in {"_post", "_patch"}
    /\ resp.status_code = 204
    => outcome = Returned(None)

-----------------------------------------------------------------------------
(* Properties of the query parameters *)

\* C12: the query parameters of a list or watch call are exactly the entries
\* of the mapping whose value is not None, each with its value (0 included);
\* no key whose value is None is among them, and when every value is None
\* there are none.
C12_QueryKeepsExactlyNonNone ==
    fn \in {"list", "watch"} =>
        /\ \A i \in 1..Len(arg) :
             IF arg[i][2] # None
             THEN DictHas(ret, arg[i][1]) /\ DictGet(ret, arg[i][1]) = arg[i][2]
             ELSE ~DictHas(ret, arg[i][1])
        /\ Len(ret) = Cardinality(NonNullEntries(arg))
        /\ ((\A i \in 1..Len(arg) : arg[i][2] = None) => ret = <<>>)

C12_Witness ==
    /\ fn = "list"
    /\ arg = <<<<"limit", None>>, <<"after", JInt(0)>>>>
    /\ ret = <<<<"after", JInt(0)>>>>

-----------------------------------------------------------------------------
(* The stream readers, client.py *)

\* most lines a stream delivers before it ends
MaxLines == 4

\* str.startswith(prefix)
startswith_but_last(s, prefix) ==
    Len(s) >= Len(prefix) - 1
        /\ SubSeq(s, 1, Len(prefix) - 1) = SubSeq(prefix, 1, Len(prefix) - 1)
startswith(s, prefix) ==
    Len(s) >= Len(prefix) /\ SubSeq(s, 1, Len(prefix)) = prefix

Whitespace == {" ", "\t"}
\* str.strip(): without the white space at either end
strip_left_only(s) ==
    LET inked == {i \in 1..Len(s) : s[i] \notin Whitespace}
    IN IF inked = {} THEN <<>>
       ELSE SubSeq(s, CHOOSE i \in inked : \A j \in inked : i <= j, Len(s))
strip(s) ==
    LET inked == {i \in 1..Len(s) : s[i] \notin Whitespace}
    IN IF inked = {} THEN <<>>
       ELSE SubSeq(s, CHOOSE i \in inked : \A j \in inked : i <= j,
                      CHOOSE i \in inked : \A j \in inked : i >= j)

prefix_event == <<"e","v","e","n","t",":">>
prefix_data == <<"d","a","t","a",":">>

\* The lines a stream can deliver.  A line is the sequence of its
\* characters; the JSON payload of a data line is one piece of the line,
\* its text, which json_loads decodes.
line_event_a ==
    <<"e","v","e","n","t",":"," ","a">>
line_event_b ==
    <<"e","v","e","n","t",":","b"," ">>
line_event_settled ==
    <<"e","v","e","n","t",":"," ","s","e","t","t","l","e","d">>
line_event_empty ==
    <<"e","v","e","n","t",":">>
line_data_invoice_1 ==
    <<"d","a","t","a",":"," ",
      "{\"number\":1,\"status\":\"settled\",\"amount\":100,\"bolt11\":\"lnbc1\"}">>
line_data_invoice_2 ==
    <<"d","a","t","a",":",
      "{\"number\":2,\"status\":\"expired\",\"amount\":50,\"bolt11\":\"lnbc2\",\"txNumber\":7}",
      " ">>
line_data_payment_1 ==
    <<"d","a","t","a",":"," ",
      "{\"number\":1,\"status\":\"settled\",\"amount\":50,\"maxFee\":10,\"serviceFee\":0,\"address\":\"a@ln.bot\"}">>
line_data_not_json ==
    <<"d","a","t","a",":"," ","not json">>
line_data_array ==
    <<"d","a","t","a",":"," ","[1]">>
line_data_null ==
    <<"d","a","t","a",":"," ","null">>
line_data_missing_fields ==
    <<"d","a","t","a",":"," ","{\"number\":1}">>
line_data_empty ==
    <<"d","a","t","a",":">>
line_data_wallet_event_1 ==
    <<"d","a","t","a",":"," ",
      "{\"event\":\"invoice.settled\",\"createdAt\":\"t1\",\"data\":{\"number\":1}}">>
line_data_wallet_event_2 ==
    <<"d","a","t","a",":","{\"event\":\"payment.settled\"}">>
line_data_empty_object ==
    <<"d","a","t","a",":"," ","{}">>
line_comment ==
    <<":"," ","k","e","e","p","a","l","i","v","e">>
line_blank == <<>>
line_event_no_colon ==
    <<"e","v","e","n","t"," ","a">>
line_id ==
    <<"i","d",":"," ","1">>

PayloadTexts ==
    { "{\"number\":1,\"status\":\"settled\",\"amount\":100,\"bolt11\":\"lnbc1\"}",
      "{\"number\":2,\"status\":\"expired\",\"amount\":50,\"bolt11\":\"lnbc2\",\"txNumber\":7}",
      "{\"number\":1,\"status\":\"settled\",\"amount\":50,\"maxFee\":10,\"serviceFee\":0,\"address\":\"a@ln.bot\"}",
      "not json",
      "[1]",
      "null",
      "{\"number\":1}",
      "{\"event\":\"invoice.settled\",\"createdAt\":\"t1\",\"data\":{\"number\":1}}",
      "{\"event\":\"payment.settled\"}",
      "{}" }

\* json.loads(raw) of the stripped remainder of a data line
json_loads_raw(raw) ==
    IF Len(raw) = 1 /\ raw[1] \in PayloadTexts THEN json_loads(raw[1])
    ELSE Raised("JSONDecodeError")

\* parse(cls, value) of a decoded value: from_camel calls data.items(),
\* which only a dict has
parse_decoded(cls, value) ==
    IF value.t # "obj" THEN [exc |-> "AttributeError", obj |-> <<>>]
    ELSE parse(cls, value.o)

\* the try block of a watch reader: parse(cls, json.loads(raw))
watch_try(cls, raw) ==
    LET tried(loaded) ==
            IF loaded.exc # ""
            THEN [exc |-> loaded.exc, obj |-> <<>>]
            ELSE parse_decoded(cls, loaded.val)
    IN tried(json_loads_raw(raw))

\* the exceptions the except clause of a watch reader names
WatchCaught == {"JSONDecodeError", "TypeError"}

\* a reader that has entered its loop: event_type = ""
NewReader(entry) ==
    [entry |-> entry, event_type |-> <<>>, lines |-> <<>>, emitted |-> <<>>,
     exc |-> ""]

\* InvoiceEvent(event=event_type, data=data), PaymentEvent alike
StreamEvent_without_name(event_type, data) == [event |-> <<>>, data |-> data]
StreamEvent(event_type, data) == [event |-> event_type, data |-> data]

\* `if raw and event_type`: the reader attempts to emit an event
watch_attempts_any_payload(raw, event_type) == event_type # <<>>
watch_attempts_without_name(raw, event_type) == raw # <<>>
watch_attempts(raw, event_type) == raw # <<>> /\ event_type # <<>>

\* one turn of the loop of a watch reader, on the line taken from the stream
watch_line_keeps_name(cls, r, line) ==
    LET taken == [r EXCEPT !.lines = Append(@, line)]
    IN IF startswith(line, prefix_event)
       THEN [taken EXCEPT !.event_type = strip(SubSeq(line, 7, Len(line)))]
       ELSE IF startswith(line, prefix_data)
       THEN LET raw == strip(SubSeq(line, 6, Len(line)))
            IN IF watch_attempts(raw, r.event_type)
               THEN IF watch_try(cls, raw).exc = ""
                    THEN [taken EXCEPT
                            !.emitted = Append(@, StreamEvent(r.event_type,
                                                    watch_try(cls, raw).obj))]
                    ELSE IF watch_try(cls, raw).exc \in WatchCaught
                    THEN taken
                    ELSE [taken EXCEPT !.exc = watch_try(cls, raw).exc]
               ELSE taken
       ELSE taken
watch_line(cls, r, line) ==
    LET taken == [r EXCEPT !.lines = Append(@, line)]
    IN IF startswith(line, prefix_event)
       THEN [taken EXCEPT !.event_type = strip(SubSeq(line, 7, Len(line)))]
       ELSE IF startswith(line, prefix_data)
       THEN LET raw == strip(SubSeq(line, 6, Len(line)))
            IN IF watch_attempts(raw, r.event_type)
               THEN IF watch_try(cls, raw).exc = ""
                    THEN [taken EXCEPT
                            !.emitted = Append(@, StreamEvent(r.event_type,
                                                    watch_try(cls, raw).obj)),
                            !.event_type = <<>>]
                    ELSE IF watch_try(cls, raw).exc \in WatchCaught
                    THEN [taken EXCEPT !.event_type = <<>>]
                    ELSE [taken EXCEPT !.exc = watch_try(cls, raw).exc]
               ELSE taken
       ELSE taken

invoices_watch_line(r, line) == watch_line("InvoiceResponse", r, line)
payments_watch_line(r, line) == watch_line("PaymentResponse", r, line)

\* data.get(key, default)
dict_get(d, key, default) == IF DictHas(d, key) THEN DictGet(d, key) ELSE default

\* WalletEvent(event=..., created_at=..., data=...)
WalletEvent(event, created_at, data) ==
    [event |-> event, created_at |-> created_at, data |-> data]

\* the try block of events.stream: data.get exists on a dict only
events_try(raw) ==
    LET event_of(data) ==
            [exc |-> "",
             obj |-> WalletEvent(dict_get(data, k_event, JStr("")),
                                 dict_get(data, k_createdAt, JStr("")),
                                 dict_get(data, k_data, JObj(<<>>)))]
        tried(loaded) ==
            IF loaded.exc # ""
            THEN [exc |-> loaded.exc, obj |-> <<>>]
            ELSE IF loaded.val.t # "obj"
            THEN [exc |-> "AttributeError", obj |-> <<>>]
            ELSE event_of(loaded.val.o)
    IN tried(json_loads_raw(raw))

\* the exceptions the except clause of events.stream names
EventsCaught == {"JSONDecodeError", "TypeError"}

\* one turn of the loop of events.stream
events_stream_line(r, line) ==
    LET taken == [r EXCEPT !.lines = Append(@, line)]
    IN IF startswith(line, prefix_data)
       THEN LET raw == strip(SubSeq(line, 6, Len(line)))
            IN IF raw # <<>>
               THEN IF events_try(raw).exc = ""
                    THEN [taken EXCEPT
                            !.emitted = Append(@, events_try(raw).obj)]
                    ELSE IF events_try(raw).exc \in EventsCaught
                    THEN taken
                    ELSE [taken EXCEPT !.exc = events_try(raw).exc]
               ELSE taken
       ELSE taken

\* the lines each stream is drawn from
InvoiceLines ==
    {line_event_a, line_event_b, line_data_invoice_1, line_data_invoice_2,
     line_data_not_json, line_data_array, line_comment, line_blank}
PaymentLines ==
    {line_event_settled, line_event_empty, line_data_payment_1,
     line_data_missing_fields, line_data_empty, line_data_null, line_id,
     line_event_no_colon}
WalletLines ==
    {line_data_wallet_event_1, line_data_wallet_event_2,
     line_data_empty_object, line_data_not_json, line_data_array,
     line_event_a, line_comment}

ct_text_event_stream ==
    <<"t","e","x","t","/","e","v","e","n","t","-","s","t","r","e","a","m">>
\* the responses to a stream request: the stream, or a refusal
StreamResponses ==
    {Streamed([status_code |-> 200, content_type |-> ct_text_event_stream,
               text |-> "", reason_phrase |-> "OK"], FALSE)}
    \cup
    {Streamed([status_code |-> 401, content_type |-> ct_application_json,
               text |-> "{\"message\":\"invalid amount\"}",
               reason_phrase |-> "Unauthorized"], content_read) :
        content_read \in BOOLEAN}

\* the generator has returned: StopIteration
Stopped_by_error == [kind |-> "raise", value |-> None, error |-> Escaped("StopIteration")]
Stopped == [kind |-> "stop", value |-> None, error |-> NoError]

\* the state after LnBot("key_arg")
InitStream ==
    /\ fn = "none"
    /\ arg = <<>>
    /\ ret = <<>>
    /\ ctor = [api_key |-> JStr("key_arg"), environ_key |-> None]
    /\ self = LnBot_init(JStr("key_arg"), None)
    /\ sent = <<>>
    /\ resp = <<>>
    /\ outcome = <<>>
    /\ pc = "ready"
    /\ reader = <<>>
    /\ NoSession

\* the request of a stream reader and its status check
OpenStream(entry, headers, response) ==
    /\ pc = "ready"
    /\ sent' = Request("GET", entry, headers)
    /\ resp' = response
    /\ outcome' = stream_open(response)
    /\ reader' = NewReader(entry)
    /\ pc' = IF stream_open(response).kind = "stream" THEN "reading"
             ELSE "returned"
    /\ UNCHANGED <<self, ctor, fn, arg, ret, session_vars>>

InvoicesWatchOpen ==
    \E response \in StreamResponses :
        OpenStream("invoices.watch", invoices_watch_headers(self), response)

PaymentsWatchOpen ==
    \E response \in StreamResponses :
        OpenStream("payments.watch", payments_watch_headers(self), response)

EventsStreamOpen ==
    \E response \in StreamResponses :
        OpenStream("events.stream", events_stream_headers(self), response)

\* the reader takes the next line of the stream: it goes on reading, or an
\* exception leaves the generator
TakeLine(entry, after) ==
    /\ pc = "reading"
    /\ reader.entry = entry
    /\ Len(reader.lines) < MaxLines
    /\ reader' = after
    /\ pc' = IF after.exc # "" THEN "returned" ELSE "reading"
    /\ outcome' = IF after.exc # "" THEN Raises(Escaped(after.exc)) ELSE outcome
    /\ UNCHANGED <<self, ctor, sent, resp, fn, arg, ret, session_vars>>

InvoicesWatchLine ==
    \E line \in InvoiceLines :
        TakeLine("invoices.watch", invoices_watch_line(reader, line))

PaymentsWatchLine ==
    \E line \in PaymentLines :
        TakeLine("payments.watch", payments_watch_line(reader, line))

EventsStreamLine ==
    \E line \in WalletLines :
        TakeLine("events.stream", events_stream_line(reader, line))

\* the stream ends: iter_lines is exhausted and the generator returns
EndOfStream ==
    /\ pc = "reading"
    /\ pc' = "returned"
    /\ outcome' = Stopped
    /\ UNCHANGED <<self, ctor, sent, resp, reader, fn, arg, ret, session_vars>>

NextStream ==
    \/ InvoicesWatchOpen
    \/ PaymentsWatchOpen
    \/ EventsStreamOpen
    \/ InvoicesWatchLine
    \/ PaymentsWatchLine
    \/ EventsStreamLine
    \/ EndOfStream

SpecStream == InitStream /\ [][NextStream]_vars

-----------------------------------------------------------------------------
(* Properties of the invoice and payment watch readers *)

WatchEntries == {"invoices.watch", "payments.watch"}
\* a watch reader has been opened
Watching == pc # "ready" /\ reader.entry \in WatchEntries
PayloadClass == IF reader.entry = "invoices.watch" THEN "InvoiceResponse"
                ELSE "PaymentResponse"

\* s without the white space at its two ends
RECURSIVE TrimLeft(_)
TrimLeft(s) ==
    IF s # <<>> /\ Head(s) \in {" ", "\t"} THEN TrimLeft(Tail(s)) ELSE s
Trimmed(s) == Reverse(TrimLeft(Reverse(TrimLeft(s))))

IsEventLine(line) == Len(line) >= 6 /\ SubSeq(line, 1, 6) = prefix_event
IsDataLine(line) == Len(line) >= 5 /\ SubSeq(line, 1, 5) = prefix_data
EventName(line) == Trimmed(SubSeq(line, 7, Len(line)))
Payload(line) == Trimmed(SubSeq(line, 6, Len(line)))
\* a blank line or a comment line
IsSeparator(line) == line = <<>> \/ line[1] = ":"

\* a data line whose payload is a JSON object with every required field
WellFormedData(cls, line) ==
    /\ IsDataLine(line)
    /\ json_loads_raw(Payload(line)).exc = ""
    /\ json_loads_raw(Payload(line)).val.t = "obj"
    /\ ~RequiredAbsent(cls, json_loads_raw(Payload(line)).val.o)

\* the places of the lines that are not separators
Inked(lines) ==
    SelectSeq([i \in 1..Len(lines) |-> i], LAMBDA i : ~IsSeparator(lines[i]))

\* lines is a run of well-formed blocks, separators around them only
WellFormedBlocks(cls, lines) ==
    LET at == Inked(lines)
    IN /\ Len(at) % 2 = 0
       /\ \A b \in 1..(Len(at) \div 2) :
            /\ at[2 * b] = at[2 * b - 1] + 1
            /\ IsEventLine(lines[at[2 * b - 1]])
            /\ EventName(lines[at[2 * b - 1]]) # <<>>
            /\ WellFormedData(cls, lines[at[2 * b]])

TakesLine == pc = "reading" /\ Len(reader'.lines) = Len(reader.lines) + 1
LineTaken == reader'.lines[Len(reader'.lines)]

\* C14: when a watch reader takes a data: line while no event name is
\* pending, it yields no event and raises nothing, whatever the payload is,
\* and goes on reading.
C14_DataWithoutNameYieldsNothing ==
    [][ Watching /\ TakesLine /\ IsDataLine(LineTaken)
          /\ reader.event_type = <<>>
        => /\ reader'.emitted = reader.emitted
           /\ reader'.exc = ""
           /\ reader'.event_type = <<>>
           /\ pc' = "reading" ]_vars

C14_Witness ==
    /\ Watching
    /\ pc = "reading"
    /\ reader.lines = <<line_comment, line_data_array, line_data_invoice_1>>
    /\ reader.emitted = <<>>
    /\ reader.exc = ""

\* a data: line whose payload does not decode as JSON or does not fit the
\* record: text that is not JSON, JSON that is not an object, or an object
\* without a required field
MalformedData(cls, line) ==
    /\ IsDataLine(line)
    /\ Payload(line) # <<>>
    /\ ~WellFormedData(cls, line)

\* C15: when a watch reader takes, with an event name pending, a data: line
\* whose payload fails to decode or to fit the record, it drops the event:
\* it yields nothing, raises nothing and goes on reading, so that later
\* well-formed blocks are still yielded.
C15_MalformedPayloadDropped ==
    [][ Watching /\ TakesLine /\ reader.event_type # <<>>
          /\ MalformedData(PayloadClass, LineTaken)
        => /\ reader'.emitted = reader.emitted
           /\ reader'.exc = ""
           /\ pc' = "reading" ]_vars

\* how many of the lines are event: lines
EventLineCount(lines) ==
    Cardinality({i \in 1..Len(lines) : IsEventLine(lines[i])})

\* C16: when a watch reader takes a data: line with a name pending and a
\* payload that is not empty, the pending name is cleared, whether the event
\* was yielded or dropped; so no more events are yielded than event: lines
\* were taken, and a data: line that follows with no event: line in between
\* finds no name pending.
C16_AttemptClearsPendingName ==
    /\ [](Watching => Len(reader.emitted) <= EventLineCount(reader.lines))
    /\ [][ Watching /\ TakesLine /\ IsDataLine(LineTaken)
             /\ reader.event_type # <<>> /\ Payload(LineTaken) # <<>>
             /\ pc' = "reading"
           => /\ reader'.event_type = <<>>
              /\ Len(reader'.emitted) <= Len(reader.emitted) + 1 ]_vars

C16_Witness ==
    /\ Watching
    /\ pc = "reading"
    /\ reader.lines = <<line_event_a, line_data_not_json, line_data_invoice_1>>
    /\ reader.event_type = <<>>
    /\ reader.emitted = <<>>

\* the place of the last event: line among lines, 0 when there is none
LastEventLine(lines) ==
    IF \E i \in 1..Len(lines) : IsEventLine(lines[i])
    THEN CHOOSE i \in 1..Len(lines) :
             /\ IsEventLine(lines[i])
             /\ \A j \in (i + 1)..Len(lines) : ~IsEventLine(lines[j])
    ELSE 0

\* C17: the name of every event a watch reader yields is the trimmed
\* remainder of the last event: line taken before the data: line that
\* yields it; an event: line replaces a pending name that was never used,
\* so event: a, event: b, data: {...} yields one event named b.
C17_NameIsLastEventLine ==
    [][ Watching /\ TakesLine /\ reader'.emitted # reader.emitted
        => /\ IsDataLine(LineTaken)
           /\ Len(reader'.emitted) = Len(reader.emitted) + 1
           /\ LastEventLine(reader.lines) # 0
           /\ reader'.emitted[Len(reader'.emitted)].event =
                EventName(reader.lines[LastEventLine(reader.lines)]) ]_vars

C17_Witness ==
    /\ Watching
    /\ reader.lines = <<line_event_a, line_event_b, line_data_invoice_1>>
    /\ Len(reader.emitted) = 1
    /\ reader.emitted[1].event = <<"b">>

\* a line that starts with neither event: nor data:
IsOtherLine(line) == ~IsEventLine(line) /\ ~IsDataLine(line)
WithoutOtherLines(lines) == SelectSeq(lines, LAMBDA l : ~IsOtherLine(l))

\* the reader r after it has taken lines, one after the other
RECURSIVE RunWatch(_, _, _)
RunWatch(cls, r, lines) ==
    IF lines = <<>> \/ r.exc # "" THEN r
    ELSE RunWatch(cls, watch_line(cls, r, Head(lines)), Tail(lines))

\* C18: a line that starts with neither event: nor data: (a blank line, a
\* comment, an unrecognized field) makes a watch reader yield nothing and
\* leaves the pending name as it was; so the events yielded, the pending
\* name and the exception raised, if any, are those of the same stream
\* with all such lines taken out, wherever they stood.
C18_OtherLinesChangeNothing ==
    /\ [](Watching =>
            LET bare == RunWatch(PayloadClass, NewReader(reader.entry),
                                 WithoutOtherLines(reader.lines))
            IN /\ reader.emitted = bare.emitted
               /\ reader.event_type = bare.event_type
               /\ reader.exc = bare.exc)
    /\ [][ Watching /\ TakesLine /\ IsOtherLine(LineTaken)
           => /\ reader'.emitted = reader.emitted
              /\ reader'.event_type = reader.event_type
              /\ reader'.exc = ""
              /\ pc' = "reading" ]_vars

C18_Witness ==
    /\ Watching
    /\ reader.lines = <<line_event_a, line_blank, line_comment,
                        line_data_invoice_1>>
    /\ Len(reader.emitted) = 1
    /\ reader.emitted[1].event = <<"a">>


\* ---------------------------------------------------------------------
\* Properties of the wallet-wide event stream
\* ---------------------------------------------------------------------

WalletStreaming == pc # "ready" /\ reader.entry = "events.stream"

\* the line is a data: line whose payload is a JSON object
IsObjectData(line) ==
    /\ IsDataLine(line)
    /\ Payload(line) # <<>>
    /\ json_loads_raw(Payload(line)).exc = ""
    /\ json_loads_raw(Payload(line)).val.t = "obj"

\* the wallet event an object carries in its own fields
OwnEvent(line) ==
    LET o == json_loads_raw(Payload(line)).val.o
    IN [event      |-> IF DictHas(o, k_event) THEN DictGet(o, k_event)
                       ELSE JStr(""),
        created_at |-> IF DictHas(o, k_createdAt) THEN DictGet(o, k_createdAt)
                       ELSE JStr(""),
        data       |-> IF DictHas(o, k_data) THEN DictGet(o, k_data)
                       ELSE JObj(<<>>)]

RECURSIVE OwnEvents(_)
OwnEvents(lines) ==
    IF lines = <<>> THEN <<>>
    ELSE IF IsObjectData(Head(lines))
    THEN <<OwnEvent(Head(lines))>> \o OwnEvents(Tail(lines))
    ELSE OwnEvents(Tail(lines))

\* C19: the wallet-wide stream yields, for every data: line of the stream
\* whose payload is a JSON object, exactly one WalletEvent made of that
\* object's own event, createdAt and data fields, in the order of the
\* lines and whatever event: and comment lines stand between them: the
\* events yielded are those of the object lines taken, and the reader
\* leaves the stream only at its end, so that every line is taken.
C19_ObjectLinesYieldOwnEvents ==
    WalletStreaming =>
        /\ reader.emitted = OwnEvents(reader.lines)
        /\ reader.exc = ""

\* C20: when the wallet-wide stream takes a data: line whose payload is
\* not a JSON object (invalid JSON, or an array, a number, a string, null),
\* it drops the line: it yields nothing, raises nothing and goes on
\* reading, so that later well-formed data lines are still yielded.
C20_MalformedEventDropped ==
    [][ WalletStreaming /\ TakesLine /\ IsDataLine(LineTaken)
          /\ Payload(LineTaken) # <<>> /\ ~IsObjectData(LineTaken)
        => /\ reader'.emitted = reader.emitted
           /\ reader'.exc = ""
           /\ pc' = "reading" ]_vars


\* ---------------------------------------------------------------------
\* Properties of the end of a stream and of its opening
\* ---------------------------------------------------------------------

\* the step in which the line sequence of the response ends
StreamEnds == pc = "reading" /\ pc' = "returned" /\ reader'.lines = reader.lines

\* C21: when the line sequence ends, whichever of the three readers reads
\* it, the reader finishes normally: the generator returns, nothing is
\* raised and no event is added to those yielded, also when no line was
\* read at all and when an event name is pending; a finished reader takes
\* no further line.
C21_EndOfStreamEndsNormally ==
    [][ /\ StreamEnds => /\ outcome'.kind = "stop"
                         /\ outcome'.error = NoError
                         /\ reader' = reader
                         /\ reader.exc = ""
        /\ pc = "returned" => reader' = reader ]_vars

C21_Witness ==
    /\ pc = "returned"
    /\ outcome.kind = "stop"
    /\ reader.entry = "invoices.watch"
    /\ reader.lines = <<line_event_a>>
    /\ reader.event_type = <<"a">>
    /\ reader.emitted = <<>>

StreamEntries == {"invoices.watch", "payments.watch", "events.stream"}

\* C22: when the response to the request of a stream reader has a status
\* that is not a success, the reader raises the error the status check of
\* the request/response calls raises for that response (the typed error
\* of the status, with the body and the message taken from it), and it
\* does so before any line is read and any event yielded.
C22_StreamStatusErrorIsTyped ==
    /\ pc = "returned"
    /\ sent.entry \in StreamEntries
    /\ ~is_success(resp.status_code)
    => /\ outcome = Raises(_raise_for_status(resp))
       /\ reader = <<>>


-----------------------------------------------------------------------------
(* A session of a caller with its client, sync or async, client.py *)

\* the lines a stream delivers at most in a session
MaxRead == 3

\* AsyncLnBot._get, _post, _patch, _delete, on the response awaited
async_get(response) ==
    IF _raise_for_status(response).raised # ""
    THEN Raises(_raise_for_status(response))
    ELSE resp_json(response)

async_post(response) ==
    IF _raise_for_status(response).raised # ""
    THEN Raises(_raise_for_status(response))
    ELSE IF response.status_code = 204 THEN Returned(None)
    ELSE decode_by_content_type(response)

async_patch_as_post(response) == async_post(response)
async_patch(response) ==
    IF _raise_for_status(response).raised # ""
    THEN Raises(_raise_for_status(response))
    ELSE decode_by_content_type(response)

async_delete(response) ==
    IF _raise_for_status(response).raised # ""
    THEN Raises(_raise_for_status(response))
    ELSE Returned(None)

\* entering the `async with ... stream(...) as resp` block of an async reader
async_stream_open(response) ==
    IF is_success(response.status_code) THEN Streaming
    ELSE IF ~response.content_read THEN Raises(Escaped("ResponseNotRead"))
    ELSE Raises(_raise_for_status(response))

\* one turn of the loop of AsyncInvoicesResource.watch and of
\* AsyncPaymentsResource.watch
async_watch_line(cls, r, line) ==
    LET taken == [r EXCEPT !.lines = Append(@, line)]
    IN IF startswith(line, prefix_event)
       THEN [taken EXCEPT !.event_type = strip(SubSeq(line, 7, Len(line)))]
       ELSE IF startswith(line, prefix_data)
       THEN LET raw == strip(SubSeq(line, 6, Len(line)))
            IN IF raw # <<>> /\ r.event_type # <<>>
               THEN IF watch_try(cls, raw).exc = ""
                    THEN [taken EXCEPT
                            !.emitted = Append(@, StreamEvent(r.event_type,
                                                    watch_try(cls, raw).obj)),
                            !.event_type = <<>>]
                    ELSE IF watch_try(cls, raw).exc \in WatchCaught
                    THEN [taken EXCEPT !.event_type = <<>>]
                    ELSE [taken EXCEPT !.exc = watch_try(cls, raw).exc]
               ELSE taken
       ELSE taken

\* one turn of the loop of AsyncEventsResource.stream
async_events_stream_line(r, line) ==
    LET taken == [r EXCEPT !.lines = Append(@, line)]
    IN IF startswith(line, prefix_data)
       THEN LET raw == strip(SubSeq(line, 6, Len(line)))
            IN IF raw # <<>>
               THEN IF events_try(raw).exc = ""
                    THEN [taken EXCEPT
                            !.emitted = Append(@, events_try(raw).obj)]
                    ELSE IF events_try(raw).exc \in EventsCaught
                    THEN taken
                    ELSE [taken EXCEPT !.exc = events_try(raw).exc]
               ELSE taken
       ELSE taken

\* base_url.rstrip("/"), of a text given as its pieces
RECURSIVE rstrip_slash(_)
rstrip_nothing(s) == s
rstrip_slash(s) ==
    IF s # <<>> /\ s[Len(s)] = "/"
    THEN rstrip_slash(SubSeq(s, 1, Len(s) - 1))
    ELSE s

_DEFAULT_BASE_URL == <<"https://api.ln.bot">>

\* LnBot.__init__ and AsyncLnBot.__init__: the configuration they keep
LnBot_config(api_key, environ_key, base_url) ==
    [_api_key |-> LnBot_init(api_key, environ_key)._api_key,
     _base_url |-> rstrip_slash(base_url)]

\* self._http = http_client or httpx.Client(timeout=timeout): the httpx
\* client, supplied by the caller or made by the constructor; closed_by
\* keeps which call has closed it
Http(supplied) == [supplied |-> supplied, is_closed |-> FALSE, closed_by |-> ""]

\* close() and __exit__ of LnBot, close() and __aexit__ of AsyncLnBot:
\* self._http.close(), await self._http.aclose()
close_nothing(h) == h
close_own_only(h) == IF h.supplied THEN h ELSE [h EXCEPT !.is_closed = TRUE]
close(h) == [h EXCEPT !.is_closed = TRUE]

\* f"{self._base_url}{path}", as the pieces of the formatted string
url(client, path) == client._base_url \o <<path>>

\* the path each entry point is called with
EntryPath ==
    [_get |-> "/v1/wallets/current", _post |-> "/v1/invoices",
     _patch |-> "/v1/wallets/current", _delete |-> "/v1/webhooks/1"]
    @@ ("invoices.watch" :> "/v1/invoices/1/events")
    @@ ("payments.watch" :> "/v1/payments/1/events")
    @@ ("events.stream" :> "/v1/events")

EntryMethod ==
    [_get |-> "GET", _post |-> "POST", _patch |-> "PATCH",
     _delete |-> "DELETE"]

DispatcherEntries == {"_get", "_post", "_patch", "_delete"}

\* the request an entry point hands to self._http
Handed(client, entry) ==
    [method |-> IF entry \in DispatcherEntries THEN EntryMethod[entry]
                ELSE "GET",
     entry |-> entry,
     url |-> url(client, EntryPath[entry]),
     headers |-> CASE entry = "invoices.watch" -> invoices_watch_headers(client)
                   [] entry = "payments.watch" -> payments_watch_headers(client)
                   [] entry = "events.stream" -> events_stream_headers(client)
                   [] OTHER -> _headers(client._api_key)]

\* what the httpx client does with a request handed to it: it raises
\* RuntimeError once closed; else the transport fails or a response comes
TransportFailures == {"ConnectError", "ReadTimeout"}
SessionResponses ==
    {[status_code |-> 200, content_type |-> ct_application_json,
      text |-> "{}", reason_phrase |-> "OK"],
     [status_code |-> 200, content_type |-> ct_text_plain,
      text |-> "not json", reason_phrase |-> "OK"],
     [status_code |-> 204, content_type |-> <<>>,
      text |-> "", reason_phrase |-> "No Content"],
     [status_code |-> 404, content_type |-> ct_application_json,
      text |-> "{\"message\":\"invalid amount\"}",
      reason_phrase |-> "Not Found"]}
Failed(exc) == [exc |-> exc, response |-> <<>>]
Answered(response) == [exc |-> "", response |-> response]
Transport(h, responses) ==
    IF h.is_closed THEN {Failed("RuntimeError")}
    ELSE {Failed(e) : e \in TransportFailures}
         \cup {Answered(r) : r \in responses}

\* the value or the error of an entry point of the dispatcher, from the
\* response
decode(m, entry, response) ==
    CASE m = "sync" /\ entry = "_get" -> _get(response)
      [] m = "sync" /\ entry = "_post" -> _post(response)
      [] m = "sync" /\ entry = "_patch" -> _patch(response)
      [] m = "sync" /\ entry = "_delete" -> _delete(response)
      [] m = "async" /\ entry = "_get" -> async_get(response)
      [] m = "async" /\ entry = "_post" -> async_post(response)
      [] m = "async" /\ entry = "_patch" -> async_patch(response)
      [] m = "async" /\ entry = "_delete" -> async_delete(response)

\* an entry point of the dispatcher around self._http.get(...) and the
\* like: no try statement, so what the transport raises reaches the caller
dispatch_reinterprets(m, entry, t) ==
    IF t.exc # ""
    THEN Raises(LnBotError("LnBotError", JStr(t.exc), 0, ""))
    ELSE decode(m, entry, t.response)
dispatch(m, entry, t) ==
    IF t.exc # "" THEN Raises(Escaped(t.exc))
    ELSE decode(m, entry, t.response)

\* the status check of a reader on the response of http.stream
reader_open(m, response) ==
    IF m = "sync" THEN stream_open(response) ELSE async_stream_open(response)

\* one turn of the loop of the reader r
reader_line(m, r, line) ==
    CASE m = "sync" /\ r.entry = "invoices.watch" -> invoices_watch_line(r, line)
      [] m = "sync" /\ r.entry = "payments.watch" -> payments_watch_line(r, line)
      [] m = "sync" /\ r.entry = "events.stream" -> events_stream_line(r, line)
      [] m = "async" /\ r.entry = "invoices.watch" ->
            async_watch_line("InvoiceResponse", r, line)
      [] m = "async" /\ r.entry = "payments.watch" ->
            async_watch_line("PaymentResponse", r, line)
      [] m = "async" /\ r.entry = "events.stream" ->
            async_events_stream_line(r, line)

\* the turn reaches the yield statement: the generator is suspended there
yields_never(before, after) == FALSE
yields(before, after) == Len(after.emitted) > Len(before.emitted)

\* what next() or anext() gives the caller at a yield, and what is left of
\* a generator the caller has given up
Yielded(event) == [kind |-> "yield", value |-> event, error |-> NoError]
Abandoned == [kind |-> "abandoned", value |-> None, error |-> NoError]

\* the lines the stream of each reader is drawn from in a session
SessionLines ==
    ("invoices.watch" :> {line_event_a, line_data_invoice_1, line_comment})
    @@ ("payments.watch" :> {line_event_settled, line_data_payment_1})
    @@ ("events.stream" :> {line_data_wallet_event_1, line_data_array})

SessionStreamResponses ==
    {Streamed(r, FALSE) : r \in {x \in SessionResponses : x.status_code \in {200, 404}
                                   /\ x.content_type = ct_application_json}}
    \cup {Streamed(r, TRUE) : r \in {x \in SessionResponses : x.status_code = 404}}

SessionKeyArgs == {None, JStr("key_arg")}
SessionEnvironKeys == {None, JStr("key_env")}
BaseUrls == {_DEFAULT_BASE_URL, <<"http://localhost:8080", "/", "/">>}

\* the state after LnBot(api_key, base_url=..., http_client=...) or
\* AsyncLnBot(...)
InitSession ==
    /\ fn = "none"
    /\ arg = <<>>
    /\ ret = <<>>
    /\ \E api_key \in SessionKeyArgs, environ_key \in SessionEnvironKeys,
          base_url \in BaseUrls, m \in {"sync", "async"},
          supplied \in BOOLEAN :
         /\ ctor = [api_key |-> api_key, environ_key |-> environ_key,
                    base_url |-> base_url]
         /\ self = LnBot_config(api_key, environ_key, base_url)
         /\ mode = m
         /\ environ = environ_key
         /\ http = Http(supplied)
    /\ sent = <<>>
    /\ resp = <<>>
    /\ outcome = <<>>
    /\ pc = "ready"
    /\ reader = <<>>
    /\ wire = <<>>
    /\ conn = "none"

\* a call of _get, _post, _patch or _delete: one request handed to
\* self._http, then the status check and the decoding of the response
Dispatch ==
    /\ pc = "ready"
    /\ \E entry \in DispatcherEntries, t \in Transport(http, SessionResponses) :
         /\ sent' = Handed(self, entry)
         /\ wire' = Append(wire, Handed(self, entry))
         /\ resp' = t
         /\ outcome' = dispatch(mode, entry, t)
    /\ pc' = "returned"
    /\ UNCHANGED <<self, ctor, fn, arg, ret, reader, mode, environ, http, conn>>

\* a call of invoices.watch, payments.watch or events.stream: a generator
\* (an async generator) is made, none of its body has run
CreateReader ==
    /\ pc = "ready"
    /\ \E entry \in StreamEntries : reader' = NewReader(entry)
    /\ pc' = "created"
    /\ UNCHANGED <<self, ctor, fn, arg, ret, sent, resp, outcome, session_vars>>

\* the first next() or anext(): the body runs from its start, hands the
\* request to self._http.stream, enters the with block and checks the status
FirstPull ==
    /\ pc = "created"
    /\ \E t \in Transport(http, SessionStreamResponses) :
         /\ sent' = Handed(self, reader.entry)
         /\ wire' = Append(wire, Handed(self, reader.entry))
         /\ resp' = t
         /\ IF t.exc # ""
            THEN /\ outcome' = Raises(Escaped(t.exc))
                 /\ pc' = "returned"
                 /\ conn' = "none"
            ELSE IF reader_open(mode, t.response).kind = "raise"
            THEN /\ outcome' = reader_open(mode, t.response)
                 /\ pc' = "returned"
                 /\ conn' = "released"
            ELSE /\ outcome' = <<>>
                 /\ pc' = "pulling"
                 /\ conn' = "open"
    /\ UNCHANGED <<self, ctor, fn, arg, ret, reader, mode, environ, http>>

\* a later next() or anext(): the body goes on after its yield
Resume ==
    /\ pc = "suspended"
    /\ pc' = "pulling"
    /\ outcome' = <<>>
    /\ UNCHANGED <<self, ctor, fn, arg, ret, sent, resp, reader, session_vars>>

\* inside a pull, iter_lines (aiter_lines) gives the next line, from the
\* transport or from what it has read of it already, and the loop takes
\* its turn on it: to the yield, to an exception that leaves the with
\* block, or to the next line
ReadLine ==
    /\ pc = "pulling"
    /\ Len(reader.lines) < MaxRead
    /\ \E line \in SessionLines[reader.entry] :
         LET after == reader_line(mode, reader, line)
         IN /\ reader' = after
            /\ IF after.exc # ""
               THEN /\ outcome' = Raises(Escaped(after.exc))
                    /\ pc' = "returned"
                    /\ conn' = "released"
               ELSE IF yields(reader, after)
               THEN /\ outcome' = Yielded(after.emitted[Len(after.emitted)])
                    /\ pc' = "suspended"
                    /\ conn' = conn
               ELSE /\ outcome' = outcome
                    /\ pc' = "pulling"
                    /\ conn' = conn
    /\ UNCHANGED <<self, ctor, fn, arg, ret, sent, resp, mode, environ, http,
                   wire>>

\* inside a pull, the transport fails to read: a timeout, or the httpx
\* client has been closed; the exception leaves the with block
ReadFails ==
    /\ pc = "pulling"
    /\ \E exc \in IF http.is_closed THEN {"ReadError"} ELSE {"ReadTimeout"} :
         outcome' = Raises(Escaped(exc))
    /\ pc' = "returned"
    /\ conn' = "released"
    /\ UNCHANGED <<self, ctor, fn, arg, ret, sent, resp, reader, mode, environ,
                   http, wire>>

\* inside a pull, the line sequence ends: the loop and the with block are
\* left and the generator returns
EndOfLines ==
    /\ pc = "pulling"
    /\ ~http.is_closed
    /\ outcome' = Stopped
    /\ pc' = "returned"
    /\ conn' = "released"
    /\ UNCHANGED <<self, ctor, fn, arg, ret, sent, resp, reader, mode, environ,
                   http, wire>>

\* the caller leaves its pull loop (break, return, an exception of its
\* own) with the generator suspended at a yield or not yet started.  A
\* sync generator nothing else refers to is closed at once: GeneratorExit
\* is raised at the yield and leaves the with block.  A generator the
\* caller still refers to, and any async generator, stays as it is.
Abandon ==
    /\ pc \in {"created", "suspended"}
    /\ \E referred \in BOOLEAN :
         IF mode = "sync" /\ ~referred
         THEN /\ pc' = "returned"
              /\ outcome' = Abandoned
              /\ conn' = IF conn = "open" THEN "released" ELSE conn
         ELSE /\ pc' = "abandoned"
              /\ UNCHANGED <<outcome, conn>>
    /\ UNCHANGED <<self, ctor, fn, arg, ret, sent, resp, reader, mode, environ,
                   http, wire>>

\* the abandoned generator is closed: its last reference goes, or the
\* event loop runs the aclose() it scheduled for the async generator
Finalize ==
    /\ pc = "abandoned"
    /\ pc' = "returned"
    /\ outcome' = Abandoned
    /\ conn' = IF conn = "open" THEN "released" ELSE conn
    /\ UNCHANGED <<self, ctor, fn, arg, ret, sent, resp, reader, mode, environ,
                   http, wire>>

\* close() of the client, or the exit of its with (async with) block, with
\* or without an exception: __exit__(*args) calls close() whatever args is
Close ==
    /\ pc \in {"ready", "returned", "suspended", "abandoned"}
    /\ http.closed_by = ""
    /\ \E by \in {"close", "__exit__"} :
         http' = [close(http) EXCEPT !.closed_by = by]
    /\ UNCHANGED <<self, ctor, fn, arg, ret, sent, resp, outcome, pc, reader,
                   mode, environ, wire, conn>>

\* close() of another client constructed over the same http_client
OtherClose ==
    /\ pc \in {"ready", "returned", "suspended", "abandoned"}
    /\ http.supplied
    /\ http.closed_by = ""
    /\ http' = [close(http) EXCEPT !.closed_by = "other"]
    /\ UNCHANGED <<self, ctor, fn, arg, ret, sent, resp, outcome, pc, reader,
                   mode, environ, wire, conn>>

\* LNBOT_API_KEY is set anew in the environment
Setenv ==
    /\ pc = "ready"
    /\ environ # JStr("key_new")
    /\ environ' = JStr("key_new")
    /\ UNCHANGED <<self, ctor, fn, arg, ret, sent, resp, outcome, pc, reader,
                   mode, http, wire, conn>>

\* the caller goes on to its next call on the same client
SessionContinue ==
    /\ pc = "returned"
    /\ pc' = "ready"
    /\ sent' = <<>>
    /\ resp' = <<>>
    /\ outcome' = <<>>
    /\ reader' = <<>>
    /\ wire' = <<>>
    /\ conn' = "none"
    /\ UNCHANGED <<self, ctor, fn, arg, ret, mode, environ, http>>

NextSession ==
    \/ Dispatch
    \/ CreateReader
    \/ FirstPull
    \/ Resume
    \/ ReadLine
    \/ ReadFails
    \/ EndOfLines
    \/ Abandon
    \/ Finalize
    \/ Close
    \/ OtherClose
    \/ Setenv
    \/ SessionContinue

SpecSession == InitSession /\ [][NextSession]_vars


-----------------------------------------------------------------------------
(* Properties of a session *)

\* C23: on every way out of a stream read (the stream is exhausted, the
\* status check raises, an exception is raised while a line is processed,
\* the caller leaves its pull loop early) the response of http.stream is
\* released: in no state has the caller finished with the stream while
\* the with block that holds the response is still open, with a sync and
\* with an async client.
C23_ConnectionReleasedOnEveryExit ==
    pc \in {"returned", "abandoned"} => conn # "open"


\* the last line the reader has taken
LastTaken == reader.lines[Len(reader.lines)]

\* C24: a stream reader moves only inside a pull of its caller.  The call
\* of watch or stream hands no request to the transport: the request goes
\* with the first pull.  Lines are taken only while a pull is under way,
\* none between two pulls.  A pull that yields an event stops at once, so
\* that the last line taken is the data: line of that event.
C24_PullBased ==
    /\ [](pc = "created" => wire = <<>> /\ conn = "none" /\ reader.lines = <<>>)
    /\ [](pc = "suspended" =>
            /\ outcome.kind = "yield"
            /\ reader.lines # <<>>
            /\ IsDataLine(LastTaken)
            /\ reader.emitted # <<>>
            /\ outcome.value = reader.emitted[Len(reader.emitted)]
            /\ IF reader.entry = "events.stream"
               THEN outcome.value = OwnEvent(LastTaken)
               ELSE outcome.value.data
                      = parse(PayloadClass,
                              json_loads_raw(Payload(LastTaken)).val.o).obj)
    /\ [][ pc # "ready" /\ pc' # "ready" /\ reader' # reader
           => pc = "pulling" ]_vars
    /\ [][ wire' # wire /\ pc' # "ready" => pc \in {"ready", "created"} ]_vars
    /\ [][ pc = "pulling" /\ pc' = "pulling" /\ reader' # reader
           => reader'.emitted = reader.emitted ]_vars

C24_Witness ==
    /\ pc = "suspended"
    /\ reader.entry = "invoices.watch"
    /\ reader.lines = <<line_event_a, line_comment, line_data_invoice_1>>
    /\ Len(reader.emitted) = 1
    /\ Len(wire) = 1


\* a call has handed its request to the transport and has its result
Handled == pc # "ready" /\ wire # <<>>

\* C25: an async client gives its caller what a sync client gives for the
\* same response and the same lines: each async entry point of the
\* dispatcher returns the value or raises the error of the sync one, an
\* async reader raises on the status of its response what the sync reader
\* raises, and each line an async reader takes changes its pending name,
\* the events it has yielded and the exception that ends it as the same
\* line changes those of the sync reader.
C25_AsyncAsSync ==
    /\ [](mode = "async" /\ Handled /\ pc = "returned"
            /\ sent.entry \in DispatcherEntries =>
            outcome = IF resp.exc # "" THEN Raises(Escaped(resp.exc))
                      ELSE decode("sync", sent.entry, resp.response))
    /\ [](mode = "async" /\ Handled /\ sent.entry \in StreamEntries
            /\ resp.exc = "" =>
            IF stream_open(resp.response).kind = "raise"
            THEN pc = "returned" /\ outcome = stream_open(resp.response)
            ELSE conn # "none")
    /\ [][ mode = "async" /\ pc = "pulling"
             /\ Len(reader'.lines) = Len(reader.lines) + 1
           => reader' = reader_line("sync", reader, LineTaken) ]_vars

C25_Witness ==
    /\ mode = "async"
    /\ Handled
    /\ pc = "returned"
    /\ sent.entry = "_patch"
    /\ resp.exc = ""
    /\ resp.response.status_code = 204
    /\ outcome = Returned(JStr(""))


\* the slashes a text ends with
RECURSIVE TrailingSlashes(_)
TrailingSlashes(s) ==
    IF s # <<>> /\ s[Len(s)] = "/"
    THEN 1 + TrailingSlashes(SubSeq(s, 1, Len(s) - 1))
    ELSE 0

\* C26: the API key and the base URL of a client are those of its
\* construction: the key is the api_key argument, else LNBOT_API_KEY as
\* it was then; the base URL is the base_url argument without the slashes
\* it ends with.  No call, stream read, error or close changes them, and a
\* later change of the environment variable changes nothing: every
\* request of the client is made to that base URL with that key.
C26_ConfigurationFixed ==
    /\ [](/\ self._api_key = C9_ConfiguredKey
          /\ self._base_url
               = SubSeq(ctor.base_url, 1,
                        Len(ctor.base_url) - TrailingSlashes(ctor.base_url))
          /\ \A i \in 1..Len(wire) :
               /\ wire[i].url = self._base_url \o <<EntryPath[wire[i].entry]>>
               /\ IF Truthy(C9_ConfiguredKey)
                  THEN /\ DictHas(wire[i].headers, "Authorization")
                       /\ DictGet(wire[i].headers, "Authorization")
                            = <<"Bearer ", C9_ConfiguredKey.s>>
                  ELSE ~DictHas(wire[i].headers, "Authorization"))
    /\ [][self' = self]_vars

C26_Witness ==
    /\ pc = "returned"
    /\ ctor.api_key = None
    /\ ctor.environ_key = JStr("key_env")
    /\ environ = JStr("key_new")
    /\ ctor.base_url = <<"http://localhost:8080", "/", "/">>
    /\ http.is_closed
    /\ Len(wire) = 1
    /\ wire[1].url = <<"http://localhost:8080", "/v1/events">>
    /\ DictGet(wire[1].headers, "Authorization") = <<"Bearer ", "key_env">>


\* C27: close() of the client and the exit of its with (async with) block,
\* with or without an exception, close the httpx client behind it, which
\* stays closed; and they leave what the calls before have given their
\* caller as it is.
C27_CloseReleasesAndKeepsResults ==
    /\ [](http.closed_by # "" => http.is_closed)
    /\ [][ http'.closed_by # http.closed_by
           => /\ http.closed_by = ""
              /\ outcome' = outcome
              /\ resp' = resp
              /\ sent' = sent
              /\ reader' = reader ]_vars
    /\ [][ http.is_closed => http'.is_closed ]_vars

C27_Witness ==
    /\ pc = "returned"
    /\ Handled
    /\ sent.entry = "_get"
    /\ resp.exc = ""
    /\ outcome = Returned(JObj(<<>>))
    /\ http.closed_by = "__exit__"
    /\ http.is_closed


\* C28: a call of _get, _post, _patch or _delete hands exactly one request
\* to the transport, whether it succeeds or fails, and nothing is sent
\* again; when the transport fails (the connection is refused, a timeout
\* elapses) the caller gets the exception of the transport itself, which
\* is no LnBotError, and no value.
C28_OneRequestFailureAsIs ==
    /\ [](Handled /\ pc = "returned" /\ sent.entry \in DispatcherEntries =>
            /\ wire = <<sent>>
            /\ resp.exc # "" =>
                 /\ outcome.kind = "raise"
                 /\ outcome.error.raised = resp.exc
                 /\ ~IsLnBotError(outcome.error.raised)
                 /\ outcome.error.status = 0)
    /\ [][ wire' # wire /\ wire' # <<>>
           => wire = <<>> /\ Len(wire') = 1 ]_vars

C28_Witness ==
    /\ pc = "returned"
    /\ Handled
    /\ sent.entry = "_post"
    /\ resp.exc = "ReadTimeout"
    /\ outcome = Raises(Escaped("ReadTimeout"))
    /\ Len(wire) = 1


-----------------------------------------------------------------------------
(* Properties of empty payloads and empty names in the watch readers *)

\* C29: in a watch reader a data: line whose trimmed payload is empty
\* attempts no emission and so leaves the pending name as it is: a later
\* data: line with a payload is still yielded under that name.  An event:
\* line whose trimmed remainder is empty sets the pending name to unset:
\* the next data: line yields nothing.
C29_EmptyPayloadKeepsNameEmptyNameUnsets ==
    /\ [][ Watching /\ TakesLine /\ IsDataLine(LineTaken)
             /\ Payload(LineTaken) = <<>>
           => /\ reader'.event_type = reader.event_type
              /\ reader'.emitted = reader.emitted
              /\ reader'.exc = ""
              /\ pc' = "reading" ]_vars
    /\ [][ Watching /\ TakesLine /\ IsEventLine(LineTaken)
             /\ EventName(LineTaken) = <<>>
           => /\ reader'.event_type = <<>>
              /\ reader'.emitted = reader.emitted
              /\ pc' = "reading" ]_vars
    /\ [][ Watching /\ TakesLine /\ IsDataLine(LineTaken)
             /\ reader.lines # <<>>
             /\ IsEventLine(reader.lines[Len(reader.lines)])
             /\ EventName(reader.lines[Len(reader.lines)]) = <<>>
           => /\ reader'.emitted = reader.emitted
              /\ reader'.exc = "" ]_vars

C29_Witness ==
    /\ Watching
    /\ reader.entry = "payments.watch"
    /\ reader.lines = <<line_event_settled, line_data_empty,
                        line_data_payment_1>>
    /\ Len(reader.emitted) = 1
    /\ reader.emitted[1].event = <<"s","e","t","t","l","e","d">>
    /\ reader.event_type = <<>>


-----------------------------------------------------------------------------
(* Properties of a shared http_client *)

====
